---- MODULE Spec2Model ----
(***************************************************************************)
(* Model of the G-code toolpath interpreter of GcodeOracle                 *)
(* (src/GcodeOracle/GcodeManager.py), of the Renderer that builds the mesh *)
(* of its Segments (src/GcodeOracle/Renderer.py) and of render_gcode, which*)
(* drives both (src/GcodeOracle/main.py).                                  *)
(*                                                                         *)
(* Python floats are modelled in fixed point: a length or a command value  *)
(* v is the integer 1000*v, an angle a is the integer 10000*a (radians).   *)
(* A line of the file is a TLA+ string; an optional field of a command is  *)
(* the empty sequence (None) or a one-element sequence holding its value.  *)
(***************************************************************************)
EXTENDS Integers, Sequences, FiniteSets, TLC

VARIABLES
    pc,                 \* position of parse_gcode: "read", "parsing", "done", "exited", "crashed",
                        \* then of render_gcode: "pool", "views", "returned"
    nozzle_x,           \* GcodeManager.nozzle_x
    nozzle_y,           \* GcodeManager.nozzle_y
    nozzle_z,           \* GcodeManager.nozzle_z
    absolute_movement,  \* GcodeManager.absolute_movement
    segments,           \* GcodeManager.segments, a sequence of <<start, end>>
    command,            \* the GcodeCommand built for `line`, NoCommand if none was built
    old,                \* (old_x, old_y, old_z) taken by that line's handler
    line,               \* the line of the file parse_gcode handled last
    lineNo,             \* number of lines of the file consumed so far
    printer_info,       \* Renderer.printer_info
    _bounds,            \* Renderer._bounds
    _grid_vertex_list,  \* Renderer._grid_vertex_list
    _vertex_data,       \* Renderer._vertex_data
    vertex_array,       \* vertex_array of _prepare_geometry
    normal_array,       \* normal_array of _prepare_geometry
    completed,          \* the tasks of the Pool that have completed, in the order they did
    slot_writes,        \* number of assignments made to each row of vertex_array
    geometry_runs,      \* number of times _prepare_geometry went past its guard
    view_index,         \* number of views render_gcode has attempted
    view_result,        \* how the last render_view call ended: "img" or "raised"
    upload_success_count, \* upload_success_count of render_gcode
    returned,           \* "True" or "False" once render_gcode returned, "SystemExit"
                        \* once it was left by that exception
    desired_view,       \* desired_view of the last render_view call, "" before the first
    camera_pos,         \* camera_pos of the last render_view call, None if line 417 was
                        \* not reached
    live,               \* the GPU objects the last render_view call created and had not
                        \* released when it returned or raised
    filename,           \* filename of upload_png_to_fileserver in the last pass of the
                        \* loop of render_gcode, "" if it was not called
    body,               \* the body of the message process_message was called with
    job_id,             \* job_id of process_message and of render_gcode
    connection,         \* the global connection: "none", "open" or "closed"
    channel,            \* the global channel: "none", "open" or "closed"
    acks,               \* the basic_ack and basic_nack calls made on the channel, in order
    temp_file,          \* the temporary G-code file: "none", "exists" or "deleted"
    processing_message, \* the global processing_message
    should_stop,        \* the global should_stop
    gcode_content,      \* the lines of the file when the model fixes them in advance
    first_parse,        \* what an earlier GcodeManager made of the same file, if any
    retry_count,        \* retry_count of connect_rabbitmq
    caller,             \* where start_consumer called connect_rabbitmq from: "start"
                        \* (line 512) or the exception class of the handler; "" if it
                        \* did not
    connect_returned,   \* "True" or "False" once connect_rabbitmq returned, "" before
    queue_declared,     \* whether queue_declare was done on the channel
    prefetch_count      \* the prefetch_count basic_qos set on the channel, 0 if none

\* The state of the Renderer and of render_gcode.
rendererVars ==
    <<printer_info, _bounds, _grid_vertex_list, _vertex_data, vertex_array,
      normal_array, completed, slot_writes, geometry_runs, view_index,
      view_result, upload_success_count, returned, desired_view, camera_pos,
      live, filename>>

\* What one pass of the loop of render_gcode leaves of its render_view and
\* upload_png_to_fileserver calls.
viewVars == <<desired_view, camera_pos, live, filename>>

\* The state of process_message and the globals of main.py.
messageVars ==
    <<body, job_id, connection, channel, acks, temp_file, processing_message,
      should_stop>>

\* The text of the file and the result of an earlier GcodeManager.
textVars == <<gcode_content, first_parse>>

\* The locals of connect_rabbitmq and of start_consumer, and the state of
\* the channel connect_rabbitmq set up.
consumerVars ==
    <<retry_count, caller, connect_returned, queue_declared, prefetch_count>>

\* main.py lines 49-53: connect_rabbitmq has not been called.
NeverConnected ==
    /\ retry_count = 0
    /\ caller = ""
    /\ connect_returned = ""
    /\ queue_declared = FALSE
    /\ prefetch_count = 0

\* The connect_rabbitmq of main.py line 512 returned True at its first
\* attempt (line 139).
ConnectedAtStart ==
    /\ retry_count = 0
    /\ caller = "start"
    /\ connect_returned = "True"
    /\ queue_declared = TRUE
    /\ prefetch_count = 1

vars == <<pc, nozzle_x, nozzle_y, nozzle_z, absolute_movement, segments,
          command, old, line, lineNo, printer_info, _bounds,
          _grid_vertex_list, _vertex_data, vertex_array, normal_array,
          completed, slot_writes, geometry_runs, view_index, view_result,
          upload_success_count, returned, desired_view, camera_pos, live,
          filename, body, job_id, connection, channel, acks, temp_file,
          processing_message, should_stop, gcode_content, first_parse,
          retry_count, caller, connect_returned, queue_declared,
          prefetch_count>>

\* Number of lines of the G-code file that the model reads.
MaxLines == 3

----------------------------------------------------------------------------
(* Strings                                                                 *)

\* s[i-1:j] of a string, empty when the range is.
Slice(s, i, j) == IF i > j THEN "" ELSE SubSeq(s, i, j)

\* The i-th character of a string, empty when there is none.
Char(s, i) == IF 1 <= i /\ i <= Len(s) THEN SubSeq(s, i, i) ELSE ""

Max(a, b) == IF a >= b THEN a ELSE b

Abs(a) == IF a >= 0 THEN a ELSE -a

\* str.startswith(prefix)
StartsWith(s, prefix) ==
    Len(s) >= Len(prefix) /\ Slice(s, 1, Len(prefix)) = prefix

\* Index of the first occurrence of character c in s at or after i, or
\* Len(s) + 1 when there is none.
RECURSIVE IndexFrom(_, _, _)
IndexFrom(s, c, i) ==
    IF i > Len(s) THEN Len(s) + 1
    ELSE IF Char(s, i) = c THEN i
    ELSE IndexFrom(s, c, i + 1)

\* Index of the first character of s at or after i that is not a blank.
RECURSIVE SkipBlanks(_, _)
SkipBlanks(s, i) ==
    IF i > Len(s) THEN Len(s) + 1
    ELSE IF Char(s, i) # " " THEN i
    ELSE SkipBlanks(s, i + 1)

\* str.split(): the maximal blank-free substrings of s, in order.
RECURSIVE SplitFrom(_, _)
SplitFrom(s, i) ==
    LET b == SkipBlanks(s, i)
        e == IndexFrom(s, " ", b)
    IN  IF b > Len(s) THEN <<>>
        ELSE <<Slice(s, b, e - 1)>> \o SplitFrom(s, e)

Split(s) == SplitFrom(s, 1)

----------------------------------------------------------------------------
(* float()                                                                 *)

None == <<>>

Some(v) == <<v>>

Digits == {"0", "1", "2", "3", "4", "5", "6", "7", "8", "9"}

DigitVal(c) ==
    CASE c = "0" -> 0 [] c = "1" -> 1 [] c = "2" -> 2 [] c = "3" -> 3
      [] c = "4" -> 4 [] c = "5" -> 5 [] c = "6" -> 6 [] c = "7" -> 7
      [] c = "8" -> 8 [] c = "9" -> 9

AllDigits(s) == \A i \in 1..Len(s) : Char(s, i) \in Digits

\* Value of a string of digits read as a whole number.
RECURSIVE Whole(_)
Whole(s) ==
    IF Len(s) = 0 THEN 0
    ELSE 10 * Whole(Slice(s, 1, Len(s) - 1)) + DigitVal(Char(s, Len(s)))

\* Value, in thousandths, of a string of digits read after the point.
Thousandths(s) ==
    LET d(i) == IF i <= Len(s) THEN DigitVal(Char(s, i)) ELSE 0
    IN  100 * d(1) + 10 * d(2) + d(3)

\* float(s) for the decimal literals [sign] digits [. digits]: None when
\* Python raises ValueError, else the value in fixed point.
ParseFloat(s) ==
    LET signed == Len(s) > 0 /\ Char(s, 1) \in {"-", "+"}
        unsigned == IF signed THEN Slice(s, 2, Len(s)) ELSE s
        dot    == IndexFrom(unsigned, ".", 1)
        whole  == Slice(unsigned, 1, dot - 1)
        frac   == Slice(unsigned, dot + 1, Len(unsigned))
        ok     == /\ AllDigits(whole)
                  /\ AllDigits(frac)
                  /\ Len(whole) + Len(frac) > 0
        mag    == 1000 * Whole(whole) + Thousandths(frac)
    IN  IF ~ok THEN None
        ELSE IF signed /\ Char(s, 1) = "-" THEN Some(-mag)
        ELSE Some(mag)

----------------------------------------------------------------------------
(* GcodeCommand                                                            *)

FieldLetters == {"X", "Y", "Z", "E", "F", "I", "J", "K", "R"}

\* The fields GcodeCommand.__init__ sets before it reads the parameters.
EmptyCommand(type) ==
    [type |-> type, X |-> None, Y |-> None, Z |-> None, E |-> None,
     F |-> None, I |-> None, J |-> None, K |-> None, R |-> None]

\* param.split(';')[0] when ';' occurs in param, else param.
BeforeComment(param) == Slice(param, 1, IndexFrom(param, ";", 1) - 1)

\* ApplyParam with a ValueError resetting the field to None.
ApplyParamResets(cmd, param) ==
    LET p      == Slice(param, 1, IndexFrom(param, ";", 1) - 1)
        letter == Char(p, 1)
        value  == ParseFloat(Slice(p, 2, Len(p)))
    IN  IF letter \notin FieldLetters THEN cmd
        ELSE IF Len(p) = 1 THEN [cmd EXCEPT ![letter] = None]
        ELSE IF value = None THEN [cmd EXCEPT ![letter] = None]
        ELSE [cmd EXCEPT ![letter] = value]

\* One pass of the body of the loop over split[1:] for a param that does
\* not start with ';'.  A bare letter resets the field to None; a ValueError
\* of float() is caught and leaves the field as it was.
ApplyParam(cmd, param) ==
    LET p      == BeforeComment(param)
        letter == Char(p, 1)
        value  == ParseFloat(Slice(p, 2, Len(p)))
    IN  IF letter \notin FieldLetters THEN cmd
        ELSE IF Len(p) = 1 THEN [cmd EXCEPT ![letter] = None]
        ELSE IF value = None THEN cmd
        ELSE [cmd EXCEPT ![letter] = value]

\* The loop over split[1:], from the i-th token; it breaks at a token that
\* starts with ';'.
RECURSIVE ParseParams(_, _, _)
ParseParams(cmd, split, i) ==
    IF i > Len(split) THEN cmd
    ELSE IF StartsWith(split[i], ";") THEN cmd
    ELSE ParseParams(ApplyParam(cmd, split[i]), split, i + 1)

\* split[0] raises IndexError when the line holds blanks only.
RaisesIndexError(command_string) == Split(command_string) = <<>>

GcodeCommand(command_string) ==
    LET split == Split(command_string)
    IN  ParseParams(EmptyCommand(split[1]), split, 2)

\* The value of `command` while no GcodeCommand has been built.
NoCommand == EmptyCommand("")

----------------------------------------------------------------------------
(* math                                                                    *)

\* math.pi, in 1/10000 radian.
Pi == 31416

TwoPi == 2 * Pi

HalfPi == Pi \div 2

\* The largest r in lo..hi with r * r <= n.
RECURSIVE SqrtBetween(_, _, _)
SqrtBetween(n, lo, hi) ==
    IF lo >= hi THEN lo
    ELSE LET mid == (lo + hi + 1) \div 2
         IN  IF mid * mid <= n THEN SqrtBetween(n, mid, hi)
             ELSE SqrtBetween(n, lo, mid - 1)

\* math.sqrt, rounded down.
Sqrt(n) == SqrtBetween(n, 0, 46340)

\* atan(q / 10000) for 0 <= q <= 10000, by the polynomial
\* q (c0 + c1 q^2 + c2 q^4 + c3 q^6 + c4 q^8 + c5 q^10).
AtanUnit(q) ==
    LET q2 == (q * q) \div 10000
        a5 == -117
        a4 == 527 + (a5 * q2) \div 10000
        a3 == -1164 + (a4 * q2) \div 10000
        a2 == 1935 + (a3 * q2) \div 10000
        a1 == -3326 + (a2 * q2) \div 10000
        a0 == 9999 + (a1 * q2) \div 10000
    IN  (q * a0) \div 10000

\* math.atan2(y, x), in (-Pi, Pi].
Atan2(y, x) ==
    LET ax   == Abs(x)
        ay   == Abs(y)
        acute == IF ax >= ay THEN AtanUnit((ay * 10000) \div ax)
                 ELSE HalfPi - AtanUnit((ax * 10000) \div ay)
        upper == IF x < 0 THEN Pi - acute ELSE acute
    IN  IF x = 0 /\ y = 0 THEN 0
        ELSE IF y >= 0 THEN upper ELSE -upper

\* sin(x / 10000) * 10000 for 0 <= x <= HalfPi, by the Taylor series to x^9.
SinQuadrant(x) ==
    LET x2 == (x * x) \div 10000
        t4 == 10000 - x2 \div 72
        t3 == 10000 - ((x2 * t4) \div 10000) \div 42
        t2 == 10000 - ((x2 * t3) \div 10000) \div 20
        t1 == 10000 - ((x2 * t2) \div 10000) \div 6
    IN  (x * t1) \div 10000

\* math.sin(a), times 10000.
Sin(a) ==
    LET r == a % TwoPi
    IN  IF r <= HalfPi THEN SinQuadrant(r)
        ELSE IF r <= Pi THEN SinQuadrant(Pi - r)
        ELSE IF r <= Pi + HalfPi THEN -SinQuadrant(r - Pi)
        ELSE -SinQuadrant(TwoPi - r)

\* math.cos(a), times 10000.
Cos(a) == Sin(a + HalfPi)

----------------------------------------------------------------------------
(* GcodeManager.update_position                                            *)

\* `if command.X:` -- the truth value of an optional float: None and 0.0
\* are both false.
Truthy(field) == field # None /\ field[1] # 0

\* LinearAxis without the test of absolute_movement.
LinearAxisIgnoresMode(absolute, coordinate, field) ==
    IF Truthy(field) THEN field[1] ELSE coordinate

\* Lines 21-34 for one axis: the coordinate after the update.
LinearAxis(absolute, coordinate, field) ==
    IF absolute
    THEN IF Truthy(field)
         THEN (IF field # None THEN field[1] ELSE coordinate)
         ELSE coordinate
    ELSE IF Truthy(field) THEN coordinate + field[1] ELSE coordinate

\* Line 37 (and line 66): some coordinate is negative.
Negative(pos) == pos[1] < 0 \/ pos[2] < 0 \/ pos[3] < 0

\* IsExtrusionMove without the test E > 0.
IsExtrusionMoveAnyE(cmd) ==
    /\ cmd.E # None
    /\ (cmd.X # None \/ cmd.Y # None \/ cmd.Z # None)

\* Line 40: positive extrusion and movement commanded.
IsExtrusionMove(cmd) ==
    /\ cmd.E # None
    /\ cmd.E[1] > 0
    /\ (cmd.X # None \/ cmd.Y # None \/ cmd.Z # None)

\* LinearReturn with the test of line 37 made on the old position.
LinearReturnTestsOld(cmd, old_pos, new_pos) ==
    IF Negative(old_pos) THEN <<>>
    ELSE IF IsExtrusionMove(cmd) THEN << <<old_pos, new_pos>> >>
    ELSE <<>>

\* Lines 36-43: what update_position returns, as a sequence of zero or one
\* (old_pos, new_pos) pairs.
LinearReturn(cmd, old_pos, new_pos) ==
    IF Negative(new_pos) THEN <<>>
    ELSE IF IsExtrusionMove(cmd) THEN << <<old_pos, new_pos>> >>
    ELSE <<>>

\* update_position(command) on the current state: the nozzle position it
\* leaves, the old position it took, and the (old_pos, new_pos) pair it
\* returns, as a sequence of zero or one pairs.
update_position(cmd) ==
    LET old_pos == <<nozzle_x, nozzle_y, nozzle_z>>
        new_pos == <<LinearAxis(absolute_movement, nozzle_x, cmd.X),
                     LinearAxis(absolute_movement, nozzle_y, cmd.Y),
                     LinearAxis(absolute_movement, nozzle_z, cmd.Z)>>
    IN  [nozzle   |-> new_pos,
         old      |-> old_pos,
         returned |-> LinearReturn(cmd, old_pos, new_pos)]

----------------------------------------------------------------------------
(* GcodeManager.process_arc                                                *)

\* `command.I if command.I is not None else 0`
OrZero(field) == IF field # None THEN field[1] ELSE 0

\* Lines 56-63 for one axis: the end coordinate of the arc.
ArcEndAxis(absolute, coordinate, field) ==
    IF absolute
    THEN IF field # None THEN field[1] ELSE coordinate
    ELSE coordinate + OrZero(field)

\* Lines 56-63: (end_x, end_y, end_z).
ArcEnd(cmd) ==
    <<ArcEndAxis(absolute_movement, nozzle_x, cmd.X),
      ArcEndAxis(absolute_movement, nozzle_y, cmd.Y),
      ArcEndAxis(absolute_movement, nozzle_z, cmd.Z)>>

\* Line 66: the test that makes process_arc return no segment.  It reads
\* self.nozzle_x, self.nozzle_y, self.nozzle_z, which still hold the start.
ArcSkipped(start, end) == Negative(start)

\* Lines 73-74: (center_x, center_y).
ArcCenter(cmd) == <<nozzle_x + OrZero(cmd.I), nozzle_y + OrZero(cmd.J)>>

\* Lines 78-80: the planar distance from the centre to the start.
Radius(start_vec_x, start_vec_y) ==
    Sqrt(start_vec_x * start_vec_x + start_vec_y * start_vec_y)

\* TooSmall without the test: no radius is too small.
TooSmallNever(radius) == FALSE

\* Line 83: radius < 0.001.
TooSmall(radius) == radius < 1

\* AngleDiff with the two corrections exchanged.
AngleDiffSwapped(start_angle, end_angle, clockwise) ==
    LET angle_diff == end_angle - start_angle
    IN  IF clockwise
        THEN IF angle_diff < 0 THEN angle_diff + TwoPi ELSE angle_diff
        ELSE IF angle_diff > 0 THEN angle_diff - TwoPi ELSE angle_diff

\* Lines 98-106: the angular span, corrected for the direction.
AngleDiff(start_angle, end_angle, clockwise) ==
    LET angle_diff == end_angle - start_angle
    IN  IF clockwise
        THEN IF angle_diff > 0 THEN angle_diff - TwoPi ELSE angle_diff
        ELSE IF angle_diff < 0 THEN angle_diff + TwoPi ELSE angle_diff

\* NumSegments with the arc length rounded up.
NumSegmentsRoundedUp(angle_diff, radius) ==
    LET arc_length == Abs(angle_diff) * radius
    IN  Max(4, arc_length \div 10000000 + 1)

\* Lines 109-111: max(4, int(arc_length / 1.0)).
NumSegments(angle_diff, radius) ==
    LET arc_length == Abs(angle_diff) * radius
    IN  Max(4, arc_length \div 10000000)

\* Line 114, in 1/1000000: (end_z - self.nozzle_z) / num_segments.
ZStep(start_z, end_z, num_segments) ==
    IF num_segments > 0 THEN ((end_z - start_z) * 1000) \div num_segments ELSE 0

\* The locals of process_arc that lines 51-114 compute, each once.
ArcLocals(cmd, clockwise) ==
    LET old_pos      == <<nozzle_x, nozzle_y, nozzle_z>>
        end          == ArcEnd(cmd)
        center       == ArcCenter(cmd)
        start_vec_x  == nozzle_x - center[1]
        start_vec_y  == nozzle_y - center[2]
        radius       == Radius(start_vec_x, start_vec_y)
        start_angle  == Atan2(start_vec_y, start_vec_x)
        end_angle    == Atan2(end[2] - center[2], end[1] - center[1])
        angle_diff   == AngleDiff(start_angle, end_angle, clockwise)
        num_segments == NumSegments(angle_diff, radius)
    IN  [old_pos      |-> old_pos,
         end          |-> end,
         center       |-> center,
         radius       |-> radius,
         start_angle  |-> start_angle,
         end_angle    |-> end_angle,
         angle_diff   |-> angle_diff,
         num_segments |-> num_segments,
         z_step       |-> ZStep(nozzle_z, end[3], num_segments)]

\* Lines 123-132: (seg_x, seg_y, seg_z) of the i-th pass of the loop.
ArcPoint(arc, i) ==
    LET angle == arc.start_angle + (arc.angle_diff * i) \div arc.num_segments
    IN  IF i = arc.num_segments THEN arc.end
        ELSE <<arc.center[1] + (arc.radius * Cos(angle)) \div 10000,
               arc.center[2] + (arc.radius * Sin(angle)) \div 10000,
               arc.old_pos[3] + (arc.z_step * i) \div 1000>>

\* ArcLoop without line 135: prev stays the start of the arc.
RECURSIVE ArcLoopKeepsPrev(_, _, _)
ArcLoopKeepsPrev(arc, i, prev) ==
    IF i > arc.num_segments THEN <<>>
    ELSE LET seg == ArcPoint(arc, i)
         IN  << <<prev, seg>> >> \o ArcLoopKeepsPrev(arc, i + 1, prev)

\* Lines 119-135: the passes i, i + 1, ..., num_segments of the loop,
\* entered with (prev_x, prev_y, prev_z) = prev.
RECURSIVE ArcLoop(_, _, _)
ArcLoop(arc, i, prev) ==
    IF i > arc.num_segments THEN <<>>
    ELSE LET seg == ArcPoint(arc, i)
         IN  << <<prev, seg>> >> \o ArcLoop(arc, i + 1, seg)

\* Lines 87 and 117: `command.E is not None and command.E > 0`.
HasExtrusion(cmd) == cmd.E # None /\ cmd.E[1] > 0

\* process_arc with lines 67-69 left out: the nozzle stays where it is
\* when the arc is skipped.
process_arcSkippedStays(cmd, clockwise) ==
    LET arc == ArcLocals(cmd, clockwise)
    IN  [nozzle   |-> IF ArcSkipped(arc.old_pos, arc.end) THEN arc.old_pos
                      ELSE arc.end,
         old      |-> arc.old_pos,
         returned |-> IF ArcSkipped(arc.old_pos, arc.end) THEN <<>>
                      ELSE IF TooSmall(arc.radius)
                      THEN (IF HasExtrusion(cmd)
                            THEN << <<arc.old_pos, arc.end>> >> ELSE <<>>)
                      ELSE IF HasExtrusion(cmd)
                      THEN ArcLoop(arc, 1, arc.old_pos)
                      ELSE <<>>]

\* process_arc(command, clockwise) on the current state: the nozzle
\* position it leaves, the old position it took and the list it returns.
process_arc(cmd, clockwise) ==
    LET arc == ArcLocals(cmd, clockwise)
    IN  [nozzle   |-> arc.end,
         old      |-> arc.old_pos,
         returned |-> IF ArcSkipped(arc.old_pos, arc.end) THEN <<>>
                      ELSE IF TooSmall(arc.radius)
                      THEN (IF HasExtrusion(cmd)
                            THEN << <<arc.old_pos, arc.end>> >> ELSE <<>>)
                      ELSE IF HasExtrusion(cmd)
                      THEN ArcLoop(arc, 1, arc.old_pos)
                      ELSE <<>>]

----------------------------------------------------------------------------
(* GcodeManager.get_bounds                                                 *)

\* Lines 189-199: all_x (axis 1), all_y (axis 2) or all_z (axis 3): the
\* start and the end coordinate of every Segment, in order.
AllOf(segs, axis) ==
    [k \in 1..(2 * Len(segs)) |->
        IF k % 2 = 1 THEN segs[(k + 1) \div 2][1][axis]
        ELSE segs[k \div 2][2][axis]]

\* min() and max() of a non-empty list.
MinOf(list) ==
    list[CHOOSE i \in 1..Len(list) : \A j \in 1..Len(list) : list[i] <= list[j]]

MaxOf(list) ==
    list[CHOOSE i \in 1..Len(list) : \A j \in 1..Len(list) : list[i] >= list[j]]

\* get_bounds with the start points left out of the lists.
get_boundsOfEnds(segs) ==
    LET ends(axis) == [k \in 1..Len(segs) |-> segs[k][2][axis]]
    IN  IF segs = <<>> THEN None
        ELSE Some([min_x |-> MinOf(ends(1)), max_x |-> MaxOf(ends(1)),
                   min_y |-> MinOf(ends(2)), max_y |-> MaxOf(ends(2)),
                   min_z |-> MinOf(ends(3)), max_z |-> MaxOf(ends(3))])

\* Lines 185-206: None for an empty list of Segments, else the dict.
get_bounds(segs) ==
    IF segs = <<>> THEN None
    ELSE Some([min_x |-> MinOf(AllOf(segs, 1)), max_x |-> MaxOf(AllOf(segs, 1)),
               min_y |-> MinOf(AllOf(segs, 2)), max_y |-> MaxOf(AllOf(segs, 2)),
               min_z |-> MinOf(AllOf(segs, 3)), max_z |-> MaxOf(AllOf(segs, 3))])

----------------------------------------------------------------------------
(* Renderer.get_grid_vertex_list                                           *)

\* DEFAULT_PRINTER_INFO of main.py.
DEFAULT_PRINTER_INFO ==
    [bed_min_x |-> 0, bed_min_y |-> 0, bed_min_z |-> 0,
     bed_max_x |-> 250000, bed_max_y |-> 210000, bed_max_z |-> 220000]

\* list(range(start, stop, step)) for step > 0.
Range(start, stop, step) ==
    [k \in 1..(IF stop > start THEN (stop - start + step - 1) \div step ELSE 0)
        |-> start + (k - 1) * step]

\* Lines 200-237: the flat list of the coordinates of the grid lines of the
\* bed and of the cross in the origin square.
get_grid_vertex_list(info, spacing) ==
    LET x_min == info.bed_min_x
        y_min == info.bed_min_y
        x_max == info.bed_max_x
        y_max == info.bed_max_y
        xs    == Range(x_min, x_max + 1000, spacing)
        ys    == Range(y_min, y_max + 1000, spacing)
        ofX   == [k \in 1..(6 * Len(xs)) |->
                    LET x == xs[(k - 1) \div 6 + 1]
                        j == (k - 1) % 6
                    IN  CASE j = 0 -> x [] j = 1 -> y_min [] j = 2 -> 0
                          [] j = 3 -> x [] j = 4 -> y_max [] j = 5 -> 0]
        ofY   == [k \in 1..(6 * Len(ys)) |->
                    LET y == ys[(k - 1) \div 6 + 1]
                        j == (k - 1) % 6
                    IN  CASE j = 0 -> x_min [] j = 1 -> y [] j = 2 -> 0
                          [] j = 3 -> x_max [] j = 4 -> y [] j = 5 -> 0]
    IN  ofX \o ofY \o <<0, 0, 0, spacing, spacing, 0,
                         0, spacing, 0, spacing, 0, 0>>

----------------------------------------------------------------------------
(* Renderer.get_segment_vertices                                           *)

VAdd(a, b) == <<a[1] + b[1], a[2] + b[2], a[3] + b[3]>>

VSub(a, b) == <<a[1] - b[1], a[2] - b[2], a[3] - b[3]>>

VNeg(a) == <<-a[1], -a[2], -a[3]>>

\* The product of the scalar k and the vector v.
VTimes(k, v) == <<(k * v[1]) \div 1000, (k * v[2]) \div 1000, (k * v[3]) \div 1000>>

\* np.cross(a, b), in the square of the unit of a and b.
Cross(a, b) ==
    <<a[2] * b[3] - a[3] * b[2],
      a[3] * b[1] - a[1] * b[3],
      a[1] * b[2] - a[2] * b[1]>>

\* np.linalg.norm(v)
NormOf(v) == Sqrt(v[1] * v[1] + v[2] * v[2] + v[3] * v[3])

\* v / norm, a vector of length 1.
Normalized(v, norm) ==
    <<(v[1] * 1000) \div norm, (v[2] * 1000) \div norm, (v[3] * 1000) \div norm>>

\* Lines 331-339: the face normal of the triangle (v0, v1, v2), (0, 0, 1)
\* when its edges have no cross product.  The cross product is brought
\* down to components of at most 10000 before its norm is taken.
calculate_normal(v0, v1, v2) ==
    LET edge1  == VSub(v1, v0)
        edge2  == VSub(v2, v0)
        normal == Cross(edge1, edge2)
        most   == Max(Abs(normal[1]), Max(Abs(normal[2]), Abs(normal[3])))
        by     == most \div 10000 + 1
        scaled == <<normal[1] \div by, normal[2] \div by, normal[3] \div by>>
        norm   == NormOf(scaled)
    IN  IF most > 0 /\ norm > 0 THEN Normalized(scaled, norm)
        ELSE <<0, 0, 1000>>

\* add_triangle with the normal written to the first of its rows only.
add_triangleOneNormal(arrays, idx, v0, v1, v2) ==
    [segment_vertices |->
        [arrays.segment_vertices EXCEPT ![idx + 1] = v0,
                                        ![idx + 2] = v1,
                                        ![idx + 3] = v2],
     segment_normals |->
        [arrays.segment_normals EXCEPT ![idx + 1] = calculate_normal(v0, v1, v2)]]

\* Lines 341-349: the rows idx, idx + 1, idx + 2 (counted from 0) of
\* segment_vertices and segment_normals after add_triangle.
add_triangle(arrays, idx, v0, v1, v2) ==
    LET normal == calculate_normal(v0, v1, v2)
    IN  [segment_vertices |->
            [arrays.segment_vertices EXCEPT ![idx + 1] = v0,
                                            ![idx + 2] = v1,
                                            ![idx + 3] = v2],
         segment_normals |->
            [arrays.segment_normals EXCEPT ![idx + 1] = normal,
                                           ![idx + 2] = normal,
                                           ![idx + 3] = normal]]

\* Lines 351-354: the indices into start_v and end_v, counted from 0.
TOP == 0

RIGHT == 1

BOTTOM == 2

LEFT == 3

\* Lines 356-379: the corners of the twelve triangles in the order they are
\* added; "s" is a corner of start_v and "e" one of end_v.
Triangles ==
    << <<"s", BOTTOM, "s", RIGHT, "s", TOP>>,
       <<"s", LEFT, "s", BOTTOM, "s", TOP>>,
       <<"e", TOP, "e", RIGHT, "e", BOTTOM>>,
       <<"e", TOP, "e", BOTTOM, "e", LEFT>>,
       <<"s", RIGHT, "e", TOP, "s", TOP>>,
       <<"e", RIGHT, "e", TOP, "s", RIGHT>>,
       <<"s", LEFT, "e", TOP, "s", TOP>>,
       <<"e", LEFT, "e", TOP, "s", LEFT>>,
       <<"s", RIGHT, "e", RIGHT, "s", BOTTOM>>,
       <<"e", BOTTOM, "s", BOTTOM, "e", RIGHT>>,
       <<"s", LEFT, "e", BOTTOM, "s", BOTTOM>>,
       <<"e", LEFT, "e", BOTTOM, "s", LEFT>> >>

\* Lines 356-379 from the t-th call of add_triangle on.
RECURSIVE AddTriangles(_, _, _, _)
AddTriangles(arrays, t, start_v, end_v) ==
    IF t > Len(Triangles) THEN arrays
    ELSE LET tri     == Triangles[t]
             at(k)   == IF tri[2 * k - 1] = "s" THEN start_v[tri[2 * k] + 1]
                        ELSE end_v[tri[2 * k] + 1]
         IN  AddTriangles(add_triangle(arrays, 3 * (t - 1), at(1), at(2), at(3)),
                          t + 1, start_v, end_v)

\* Lines 317-329: the corners TOP, RIGHT, BOTTOM, LEFT around the point p.
Corners(p, up, right, half_width, half_height) ==
    <<VAdd(p, VTimes(half_height, up)),
      VAdd(p, VTimes(half_width, right)),
      VAdd(p, VTimes(half_height, VNeg(up))),
      VAdd(p, VTimes(half_width, VNeg(right)))>>

\* Lines 286-381: segment_vertices and segment_normals of a Segment.  The
\* rows of np.empty hold the arbitrary value `empty` until they are written.
get_segment_vertices(segment, width, height, empty) ==
    LET start     == segment[1]
        end       == segment[2]
        span      == VSub(end, start)
        direction_norm == NormOf(span)
        direction == IF direction_norm > 0 THEN Normalized(span, direction_norm)
                     ELSE <<1000, 0, 0>>
        up        == <<0, 0, 1000>>
        cross     == Cross(direction, up)
        across    == <<cross[1] \div 1000, cross[2] \div 1000, cross[3] \div 1000>>
        right_norm == NormOf(across)
        right     == IF right_norm > 0 THEN Normalized(across, right_norm)
                     ELSE <<1000, 0, 0>>
        half_width  == width \div 2
        half_height == height \div 2
        start_v   == Corners(start, up, right, half_width, half_height)
        end_v     == Corners(end, up, right, half_width, half_height)
    IN  AddTriangles([segment_vertices |-> [k \in 1..36 |-> empty],
                      segment_normals  |-> [k \in 1..36 |-> empty]],
                     1, start_v, end_v)

\* Lines 496-499: what a worker of the Pool returns for one task.
_process_segment_worker(segment_index, segment, width, height, empty) ==
    LET arrays == get_segment_vertices(segment, width, height, empty)
    IN  <<segment_index, arrays.segment_vertices, arrays.segment_normals>>

----------------------------------------------------------------------------
(* The G-code files the model reads                                        *)

\* Lines that no move handles: empty, comment, blank, mode, G92, other.
ControlLines ==
    {"", "; layer 1", "  ", " ; note", "G90", "G91", "G92 X0 Y0 E0",
     "G92 X5 Z-1", "M104 S200", "G28 X0 Y0", "g1 X5 E1"}

\* G0/G1 lines: every choice of the X, Y and E fields below, and some
\* lines with Z, with E <= 0 and with G0.
LinearLines ==
    {"G1" \o x \o y \o e :
        x \in {"", " X0", " X5", " X-5", " X10"},
        y \in {"", " Y10"},
        e \in {"", " E1"}}
    \cup {"G0 X5 Y0 Z5 E0.5", "G1 Z-1 E1", "G1 X5 E-1", "G1 X5 Y5 E0",
          "G0 X10 Y10 Z0.2"}

\* G2/G3 lines.
ArcLines ==
    {"G2 X10 Y0 I5 J0 E1", "G3 X10 Y0 I5 J0 E1", "G2 X5 Y5 I5 E1",
     "G3 X-5 I-2.5 E1", "G2 X5 Y5 Z5 J5 E1", "G2 X10 I5", "G3 X5 E1",
     "G2 X0 Y0 I5 J5 E1", "G3 Y10 I0 J5 E-1", "G2 X5 Y5 I0.0005 E1"}

\* A line for each case of parse_gcode.
EveryCase ==
    {"", "  ", "G90", "G91", "G92 X0 Y0 E0", "M104 S200", "G1 X10 Y10 E1",
     "G2 X10 Y0 I5 J0 E1"}

\* Command lines with an inline ';'.
InlineCommentLines ==
    {"G1 X10;home Y5 E1", "G1 X10 ;home Y5 E1", "G1 X5 Y5; E1", "G1;note X5"}

\* Command lines with a parameter whose number float() rejects.
UnparsableLines ==
    {"G1 Xabc Y5 E1", "G1 X5 Xabc E1", "G1 X1.2.3 Y5 E1", "G1 X10 Y10 E--1"}

\* The lines of the files of Spec, of SpecLinear and of SpecArc.
ControlFile ==
    ControlLines \cup EveryCase \cup {"G1 X-5", "G0 X5 Y5 Z5"}
        \cup InlineCommentLines \cup UnparsableLines

LinearFile == LinearLines \cup EveryCase

ArcFile == ArcLines \cup EveryCase \cup {"G0 X5 Y5", "G1 X-5 E1", "G0 Z5"}

\* The lines of the files of SpecRender: a line for each case of
\* parse_gcode, moves that draw a sloping, a vertical and (when repeated) a
\* zero-length Segment, and an arc that ends at a negative coordinate.
RenderFile ==
    {"", "  ", "G90", "G91", "G92 X0 Y0 E0", "M104 S200", "G1 X10 Y10 E1",
     "G1 Z5 E1", "G3 X-5 E1"}

Lines == ControlFile \cup LinearFile \cup ArcFile \cup RenderFile

\* GcodeCommand(l) of every line l that has a first token, computed once.
CommandOf ==
    [l \in {k \in Lines : ~RaisesIndexError(k)} |-> GcodeCommand(l)]

----------------------------------------------------------------------------
(* GcodeManager.parse_gcode                                                *)

\* Line 154: the lines skipped before a GcodeCommand is built.
IsSkipped(l) == Len(l) = 0 \/ Char(l, 1) = ";"

\* Dispatch with G91 handled by the case of G90.
DispatchG91AsG90(type) ==
    CASE type = ";"   -> "comment"
      [] type = "G90" -> "absolute"
      [] type = "G91" -> "absolute"
      [] type = "G92" -> "set_position"
      [] type = "G0"  -> "linear"
      [] type = "G1"  -> "linear"
      [] type = "G2"  -> "clockwise"
      [] type = "G3"  -> "counter_clockwise"
      [] OTHER        -> "unmatched"

\* Dispatch with G92 handled by the case of G0.
DispatchG92AsG0(type) ==
    CASE type = ";"   -> "comment"
      [] type = "G90" -> "absolute"
      [] type = "G91" -> "relative"
      [] type = "G92" -> "linear"
      [] type = "G0"  -> "linear"
      [] type = "G1"  -> "linear"
      [] type = "G2"  -> "clockwise"
      [] type = "G3"  -> "counter_clockwise"
      [] OTHER        -> "unmatched"

\* The match statement of lines 160-180: the case that handles a type.
Dispatch(type) ==
    CASE type = ";"   -> "comment"
      [] type = "G90" -> "absolute"
      [] type = "G91" -> "relative"
      [] type = "G92" -> "set_position"
      [] type = "G0"  -> "linear"
      [] type = "G1"  -> "linear"
      [] type = "G2"  -> "clockwise"
      [] type = "G3"  -> "counter_clockwise"
      [] OTHER        -> "unmatched"

\* Lines 5-11: the state __init__ sets before it calls parse_gcode.
Init ==
    /\ pc = "read"
    /\ nozzle_x = 0
    /\ nozzle_y = 0
    /\ nozzle_z = 0
    /\ absolute_movement = TRUE
    /\ segments = <<>>
    /\ command = NoCommand
    /\ old = <<0, 0, 0>>
    /\ line = ""
    /\ lineNo = 0
    /\ printer_info = None
    /\ _bounds = None
    /\ _grid_vertex_list = None
    /\ _vertex_data = None
    /\ vertex_array = <<>>
    /\ normal_array = <<>>
    /\ completed = <<>>
    /\ slot_writes = <<>>
    /\ geometry_runs = 0
    /\ view_index = 0
    /\ view_result = ""
    /\ upload_success_count = 0
    /\ returned = ""
    /\ desired_view = ""
    /\ camera_pos = None
    /\ live = {}
    /\ filename = ""
    /\ body = None
    /\ job_id = None
    /\ connection = "none"
    /\ channel = "none"
    /\ acks = <<>>
    /\ temp_file = "none"
    /\ processing_message = FALSE
    /\ should_stop = FALSE
    /\ gcode_content = None
    /\ first_parse = None
    /\ NeverConnected

\* Lines 146-148: the file is read.
ReadFile ==
    /\ pc = "read"
    /\ pc' = "parsing"
    /\ UNCHANGED <<nozzle_x, nozzle_y, nozzle_z, absolute_movement, segments,
                   command, old, line, lineNo>>
    /\ UNCHANGED rendererVars
    /\ UNCHANGED messageVars
    /\ UNCHANGED textVars
    /\ UNCHANGED consumerVars

\* Lines 149-151: the file cannot be read; sys.exit(1).
ReadFileFails ==
    /\ pc = "read"
    /\ pc' = "exited"
    /\ UNCHANGED <<nozzle_x, nozzle_y, nozzle_z, absolute_movement, segments,
                   command, old, line, lineNo>>
    /\ UNCHANGED rendererVars
    /\ UNCHANGED messageVars
    /\ UNCHANGED textVars
    /\ UNCHANGED consumerVars

\* The loop of line 153 takes the next line l of the file.
Takes(l) ==
    /\ pc = "parsing"
    /\ lineNo < MaxLines
    /\ line' = l
    /\ lineNo' = lineNo + 1
    /\ UNCHANGED rendererVars
    /\ UNCHANGED messageVars
    /\ UNCHANGED textVars
    /\ UNCHANGED consumerVars

\* Lines 154-155: an empty line or a line that starts with ';'.
SkipLine(l) ==
    /\ Takes(l)
    /\ IsSkipped(l)
    /\ command' = NoCommand
    /\ UNCHANGED <<pc, nozzle_x, nozzle_y, nozzle_z, absolute_movement,
                   segments, old>>

\* Line 157 on a line of blanks: split[0] raises IndexError, which
\* parse_gcode does not catch.
BlankLine(l) ==
    /\ Takes(l)
    /\ ~IsSkipped(l)
    /\ RaisesIndexError(l)
    /\ pc' = "crashed"
    /\ command' = NoCommand
    /\ UNCHANGED <<nozzle_x, nozzle_y, nozzle_z, absolute_movement,
                   segments, old>>

\* Line 157 builds the GcodeCommand of a line that has a first token.
Builds(l) ==
    /\ Takes(l)
    /\ ~IsSkipped(l)
    /\ ~RaisesIndexError(l)
    /\ command' = CommandOf[l]

\* Lines 161-162 and 167-168: `continue`.
Continue(l) ==
    /\ Builds(l)
    /\ Dispatch(CommandOf[l].type) \in {"comment", "set_position"}
    /\ UNCHANGED <<pc, nozzle_x, nozzle_y, nozzle_z, absolute_movement,
                   segments, old>>

\* Lines 163-164.
SetAbsolute(l) ==
    /\ Builds(l)
    /\ Dispatch(CommandOf[l].type) = "absolute"
    /\ absolute_movement' = TRUE
    /\ UNCHANGED <<pc, nozzle_x, nozzle_y, nozzle_z, segments, old>>

\* Lines 165-166.
SetRelative(l) ==
    /\ Builds(l)
    /\ Dispatch(CommandOf[l].type) = "relative"
    /\ absolute_movement' = FALSE
    /\ UNCHANGED <<pc, nozzle_x, nozzle_y, nozzle_z, segments, old>>

\* Lines 169-172 and 182-183.
LinearMove(l) ==
    /\ Builds(l)
    /\ Dispatch(CommandOf[l].type) = "linear"
    /\ LET r == update_position(CommandOf[l])
       IN  /\ nozzle_x' = r.nozzle[1]
           /\ nozzle_y' = r.nozzle[2]
           /\ nozzle_z' = r.nozzle[3]
           /\ old' = r.old
           /\ segments' = segments \o r.returned
    /\ UNCHANGED <<pc, absolute_movement>>

\* Lines 173-180.
ArcMove(l) ==
    /\ Builds(l)
    /\ Dispatch(CommandOf[l].type) \in {"clockwise", "counter_clockwise"}
    /\ LET r == process_arc(CommandOf[l],
                            Dispatch(CommandOf[l].type) = "clockwise")
       IN  /\ nozzle_x' = r.nozzle[1]
           /\ nozzle_y' = r.nozzle[2]
           /\ nozzle_z' = r.nozzle[3]
           /\ old' = r.old
           /\ segments' = segments \o r.returned
    /\ UNCHANGED <<pc, absolute_movement>>

\* No case of the match statement matches the type.
Unmatched(l) ==
    /\ Builds(l)
    /\ Dispatch(CommandOf[l].type) = "unmatched"
    /\ UNCHANGED <<pc, nozzle_x, nozzle_y, nozzle_z, absolute_movement,
                   segments, old>>

\* The loop of line 153 has no line left.
EndOfFile ==
    /\ pc = "parsing"
    /\ pc' = "done"
    /\ UNCHANGED <<nozzle_x, nozzle_y, nozzle_z, absolute_movement, segments,
                   command, old, line, lineNo>>
    /\ UNCHANGED rendererVars
    /\ UNCHANGED messageVars
    /\ UNCHANGED textVars
    /\ UNCHANGED consumerVars

\* One iteration of the loop of line 153, on the line l.
Step(l) ==
    \/ SkipLine(l)
    \/ BlankLine(l)
    \/ Continue(l)
    \/ SetAbsolute(l)
    \/ SetRelative(l)
    \/ LinearMove(l)
    \/ ArcMove(l)
    \/ Unmatched(l)

\* parse_gcode on a file whose lines are drawn from the set file.
NextOver(file) ==
    \/ ReadFile
    \/ ReadFileFails
    \/ \E l \in file : Step(l)
    \/ EndOfFile

Next == NextOver(ControlFile)

Spec == Init /\ [][Next]_vars

NextLinear == NextOver(LinearFile)

SpecLinear == Init /\ [][NextLinear]_vars

NextArc == NextOver(ArcFile)

SpecArc == Init /\ [][NextArc]_vars

----------------------------------------------------------------------------
(* Renderer.__init__ and Renderer._prepare_geometry                        *)

\* The printer_info render_gcode is called with.
PrinterInfos == {DEFAULT_PRINTER_INFO}

\* Values a row of np.empty may hold before it is written.
Garbage == {<<0, 0, 0>>, <<-1, 7, 1000>>}

\* AlreadyPrepared as the test of a non-empty array.
AlreadyPreparedNonEmpty(vertex_data) ==
    vertex_data # None /\ Len(vertex_data[1]) > 0

\* Line 241: the guard of _prepare_geometry.
AlreadyPrepared(vertex_data) == vertex_data # None

\* Line 253.
vertices_per_segment == 36

\* Line 264: worker_args, the task of each Segment.
WorkerArgs(segs) == [i \in 1..Len(segs) |-> <<i - 1, segs[i], 300, 300>>]

\* pool.starmap: the values of the completed tasks in the order of the
\* tasks, whatever the order they completed in.
StarmapResults(done) ==
    [k \in 1..Len(done) |->
        done[CHOOSE j \in 1..Len(done) : done[j].task = k].value]

\* SlotStart for a segment_index that is always 0.
SlotStartZero(segment_index) == 0

\* Line 272: start_idx.
SlotStart(segment_index) == segment_index * vertices_per_segment

\* Lines 274-275: array[start_idx:end_idx] = rows, for rows that fit.
WriteRows(array, start_idx, end_idx, rows) ==
    [k \in 1..Len(array) |->
        IF start_idx < k /\ k <= end_idx /\ k - start_idx <= Len(rows)
        THEN rows[k - start_idx] ELSE array[k]]

\* Lines 271-275 from the i-th result on: the arrays after the loop and the
\* number of assignments each row of vertex_array received.
RECURSIVE ScatterFrom(_, _, _)
ScatterFrom(arrays, results, i) ==
    IF i > Len(results) THEN arrays
    ELSE LET start_idx == SlotStart(results[i][1])
             end_idx   == start_idx + vertices_per_segment
         IN  ScatterFrom(
                 [vertex_array |->
                     WriteRows(arrays.vertex_array, start_idx, end_idx, results[i][2]),
                  normal_array |->
                     WriteRows(arrays.normal_array, start_idx, end_idx, results[i][3]),
                  writes |->
                     [k \in 1..Len(arrays.writes) |->
                         IF start_idx < k /\ k <= end_idx
                         THEN arrays.writes[k] + 1 ELSE arrays.writes[k]]],
                 results, i + 1)

\* Lines 281-283: np.hstack([vertex_array, normal_array]).flatten().
Interleaved(vertices, normals) ==
    LET rows == [k \in 1..Len(vertices) |-> vertices[k] \o normals[k]]
    IN  [k \in 1..(6 * Len(rows)) |-> rows[(k - 1) \div 6 + 1][((k - 1) % 6) + 1]]

\* Lines 281-283 on the arrays the loop of lines 271-275 has filled.
VertexData(arrays) == Interleaved(arrays.vertex_array, arrays.normal_array)

\* Lines 251-275 with the tasks of the Pool completed: the arrays filled.
Scattered(segs, done, empty) ==
    ScatterFrom([vertex_array |-> [k \in 1..(Len(segs) * vertices_per_segment) |-> empty],
                 normal_array |-> [k \in 1..(Len(segs) * vertices_per_segment) |-> empty],
                 writes       |-> [k \in 1..(Len(segs) * vertices_per_segment) |-> 0]],
                StarmapResults(done), 1)

\* The tasks of worker_args, each completed, in the order of the tasks.
AllCompleted(segs, empty) ==
    [i \in 1..Len(segs) |->
        [task  |-> i,
         value |-> _process_segment_worker(WorkerArgs(segs)[i][1], WorkerArgs(segs)[i][2],
                                           WorkerArgs(segs)[i][3], WorkerArgs(segs)[i][4],
                                           empty)]]

\* Renderer.__init__ lines 10-14 after GcodeManager(file_path) returned, and
\* _prepare_geometry up to the Pool (lines 241-267).  The locals of
\* parse_gcode (command, old, line, lineNo) are gone once it has returned.
StartGeometry(info, empty) ==
    /\ pc = "done"
    /\ ~AlreadyPrepared(None)
    /\ pc' = "pool"
    /\ printer_info' = Some(info)
    /\ geometry_runs' = geometry_runs + 1
    /\ _bounds' = get_bounds(segments)
    /\ _grid_vertex_list' = Some(get_grid_vertex_list(info, 10000))
    /\ vertex_array' = [k \in 1..(Len(segments) * vertices_per_segment) |-> empty]
    /\ normal_array' = [k \in 1..(Len(segments) * vertices_per_segment) |-> empty]
    /\ slot_writes' = [k \in 1..(Len(segments) * vertices_per_segment) |-> 0]
    /\ completed' = <<>>
    /\ command' = NoCommand
    /\ old' = <<0, 0, 0>>
    /\ line' = ""
    /\ lineNo' = 0
    /\ UNCHANGED <<nozzle_x, nozzle_y, nozzle_z, absolute_movement, segments,
                   _vertex_data, view_index, view_result, upload_success_count,
                   returned>>
    /\ UNCHANGED viewVars
    /\ UNCHANGED messageVars
    /\ UNCHANGED textVars
    /\ UNCHANGED consumerVars

\* A worker of the Pool completes the i-th task of worker_args.
WorkerCompletes(i, empty) ==
    /\ pc = "pool"
    /\ i \in 1..Len(segments)
    /\ \A j \in 1..Len(completed) : completed[j].task # i
    /\ completed' =
          Append(completed,
                 [task  |-> i,
                  value |-> _process_segment_worker(
                                WorkerArgs(segments)[i][1], WorkerArgs(segments)[i][2],
                                WorkerArgs(segments)[i][3], WorkerArgs(segments)[i][4],
                                empty)])
    /\ UNCHANGED <<pc, nozzle_x, nozzle_y, nozzle_z, absolute_movement, segments,
                   command, old, line, lineNo, printer_info, _bounds,
                   _grid_vertex_list, _vertex_data, vertex_array, normal_array,
                   slot_writes, geometry_runs, view_index, view_result,
                   upload_success_count, returned>>
    /\ UNCHANGED viewVars
    /\ UNCHANGED messageVars
    /\ UNCHANGED textVars
    /\ UNCHANGED consumerVars

\* Lines 268-283: starmap returns once every task has completed, the
\* results are assigned to the arrays and _vertex_data is set; __init__
\* returns and render_gcode enters its loop (main.py line 332).
FinishGeometry ==
    /\ pc = "pool"
    /\ Len(completed) = Len(segments)
    /\ pc' = "views"
    /\ LET arrays ==
             ScatterFrom([vertex_array |-> vertex_array,
                          normal_array |-> normal_array,
                          writes       |-> slot_writes],
                         StarmapResults(completed), 1)
       IN  /\ vertex_array' = arrays.vertex_array
           /\ normal_array' = arrays.normal_array
           /\ slot_writes' = arrays.writes
           /\ _vertex_data' = Some(VertexData(arrays))
    /\ UNCHANGED <<nozzle_x, nozzle_y, nozzle_z, absolute_movement, segments,
                   command, old, line, lineNo, printer_info, _bounds,
                   _grid_vertex_list, completed, geometry_runs, view_index,
                   view_result, upload_success_count, returned>>
    /\ UNCHANGED viewVars
    /\ UNCHANGED messageVars
    /\ UNCHANGED textVars
    /\ UNCHANGED consumerVars

----------------------------------------------------------------------------
(* Renderer.get_camera_position                                            *)

\* A float that is not a number, and the float of the fixed-point value v.
NaN == [nan |-> TRUE, v |-> 0]

Real(v) == [nan |-> FALSE, v |-> v]

\* Line 145: np.sqrt(model_width**2 + model_height**2 + model_depth**2).
\* Large operands are brought down before they are squared.
ModelDiagonal(model_width, model_height, model_depth) ==
    LET by == Max(model_width, Max(model_height, model_depth)) \div 20000 + 1
    IN  by * Sqrt((model_width \div by) * (model_width \div by)
                    + (model_height \div by) * (model_height \div by)
                    + (model_depth \div by) * (model_depth \div by))

\* Line 157: np.sqrt(camera_distance**2 - rise**2) for
\* rise = camera_height - center_z.  np.sqrt of a negative number is nan
\* (numpy warns and raises nothing).
HorizontalSqrt(camera_distance, rise) ==
    LET by == Max(camera_distance, Abs(rise)) \div 30000 + 1
        radicand == (camera_distance \div by) * (camera_distance \div by)
                      - (rise \div by) * (rise \div by)
    IN  IF radicand < 0 THEN NaN ELSE Real(by * Sqrt(radicand))

\* Lines 157-159: horizontal_distance.  The comparison `nan <= 0` is False.
HorizontalDistance(camera_distance, rise) ==
    LET horizontal_distance == HorizontalSqrt(camera_distance, rise)
    IN  IF ~horizontal_distance.nan /\ horizontal_distance.v <= 0
        THEN Real(camera_distance)
        ELSE horizontal_distance

\* Line 162, in units of 1/10000.
sqrt2_inv == 7071

\* Lines 164-188: (direction[0], direction[1]) in units of 1/10000.
Direction(view) ==
    CASE view = "NORTH"      -> <<0, 10000>>
      [] view = "EAST"       -> <<-10000, 0>>
      [] view = "SOUTH"      -> <<0, -10000>>
      [] view = "WEST"       -> <<10000, 0>>
      [] view = "NORTH_WEST" -> <<sqrt2_inv, sqrt2_inv>>
      [] view = "NORTH_EAST" -> <<-sqrt2_inv, sqrt2_inv>>
      [] view = "SOUTH_EAST" -> <<-sqrt2_inv, -sqrt2_inv>>
      [] view = "SOUTH_WEST" -> <<sqrt2_inv, -sqrt2_inv>>

\* Lines 192-193: center + direction * horizontal_distance; a product with
\* nan is nan.
Along(center, direction, horizontal_distance) ==
    IF horizontal_distance.nan THEN NaN
    ELSE Real(center + (direction * horizontal_distance.v) \div 10000)

\* Lines 134-159: the locals of get_camera_position that do not depend on
\* the view.
CameraLocals(bounds) ==
    LET model_diagonal == ModelDiagonal(bounds.max_x - bounds.min_x,
                                        bounds.max_y - bounds.min_y,
                                        bounds.max_z - bounds.min_z)
        model_depth       == bounds.max_z - bounds.min_z
        center_z          == (bounds.min_z + bounds.max_z) \div 2
        camera_distance   == (model_diagonal * 3) \div 2
        min_height_offset == Max(model_diagonal \div 2, Max(model_depth, 2000))
        camera_height     == bounds.max_z + min_height_offset
    IN  [center_x        |-> (bounds.min_x + bounds.max_x) \div 2,
         center_y        |-> (bounds.min_y + bounds.max_y) \div 2,
         center_z        |-> center_z,
         model_diagonal  |-> model_diagonal,
         camera_distance |-> camera_distance,
         camera_height   |-> camera_height,
         horizontal_distance |->
             HorizontalDistance(camera_distance, camera_height - center_z)]

\* Lines 190-197: camera_pos from the locals and the direction.
CameraAt(locals, direction) ==
    [x |-> Along(locals.center_x, direction[1], locals.horizontal_distance),
     y |-> Along(locals.center_y, direction[2], locals.horizontal_distance),
     z |-> Real(locals.camera_height)]

\* Lines 132-197.
get_camera_position(bounds, view) ==
    CameraAt(CameraLocals(bounds), Direction(view))

----------------------------------------------------------------------------
(* Renderer.render_view and render_gcode                                   *)

\* main.py line 46.
views ==
    <<"NORTH_WEST", "WEST", "SOUTH_WEST", "SOUTH", "SOUTH_EAST", "EAST",
      "NORTH_EAST", "NORTH">>

\* _prepare_geometry as render_view calls it (line 385).  Behind the guard
\* it leaves the fields as they are; past it, it computes them again, each
\* task of the Pool completed.
_prepare_geometry(empty) ==
    IF AlreadyPrepared(_vertex_data)
    THEN UNCHANGED <<_bounds, _grid_vertex_list, _vertex_data, geometry_runs>>
    ELSE /\ _bounds' = get_bounds(segments)
         /\ _grid_vertex_list' = Some(get_grid_vertex_list(printer_info[1], 10000))
         /\ _vertex_data' =
               Some(VertexData(Scattered(segments, AllCompleted(segments, empty), empty)))
         /\ geometry_runs' = geometry_runs + 1

\* Lines 417 and 134: get_camera_position subscripts self._bounds, which
\* raises TypeError when it is None.
SubscriptsNone(bounds) == bounds = None

\* The GPU objects render_view creates, in the order it creates them: the
\* two colour renderbuffers are the ones made inline on lines 396 and 397.
GpuObjects ==
    <<"ctx", "depth_buffer", "color_renderbuffer_msaa", "frame_buffer",
      "color_renderbuffer", "output", "prog", "grid_vertex_buffer",
      "grid_vertex_array", "vertex_buffer", "vertex_array">>

\* The line of render_view that creates each of GpuObjects.
CreatedAt == <<390, 395, 396, 396, 397, 397, 402, 408, 409, 411, 412>>

\* Lines 480-487: the objects released before `return img`.
ReleasedOnReturn ==
    {"vertex_array", "grid_vertex_array", "vertex_buffer", "grid_vertex_buffer",
     "prog", "output", "frame_buffer", "depth_buffer"}

\* A finally clause that releases nothing.
ReleasedInFinallyNothing(created) == {}

\* Lines 490-493: the finally clause releases ctx if it was created.
ReleasedInFinally(created) == created \cap {"ctx"}

\* The lines of render_view where a call is taken to raise in SpecRender:
\* drawing (474); 0 for a call where nothing fails.
Faults == {0, 474}

\* The objects created when the call on line `fault` raises.
CreatedBefore(fault) ==
    {GpuObjects[i] : i \in {j \in 1..Len(GpuObjects) : CreatedAt[j] < fault}}

AllCreated == {GpuObjects[i] : i \in 1..Len(GpuObjects)}

\* Lines 388-493 of render_view, after _prepare_geometry: whether it returns
\* the image or raises, the camera position it computed on line 417, and
\* the objects it created and has not released.
render_view(bounds, view, fault) ==
    IF fault # 0 /\ fault < 417
    THEN [result     |-> "raised",
          camera_pos |-> None,
          live       |-> CreatedBefore(fault)
                           \ ReleasedInFinally(CreatedBefore(fault))]
    ELSE IF SubscriptsNone(bounds)
    THEN [result     |-> "raised",
          camera_pos |-> None,
          live       |-> AllCreated \ ReleasedInFinally(AllCreated)]
    ELSE IF fault # 0
    THEN [result     |-> "raised",
          camera_pos |-> Some(get_camera_position(bounds[1], view)),
          live       |-> AllCreated \ ReleasedInFinally(AllCreated)]
    ELSE [result     |-> "img",
          camera_pos |-> Some(get_camera_position(bounds[1], view)),
          live       |-> AllCreated
                           \ (ReleasedOnReturn \cup ReleasedInFinally(AllCreated))]

\* str.lower() of a character of a view name.
LowerChar(c) ==
    CASE c = "A" -> "a" [] c = "B" -> "b" [] c = "C" -> "c" [] c = "D" -> "d"
      [] c = "E" -> "e" [] c = "F" -> "f" [] c = "G" -> "g" [] c = "H" -> "h"
      [] c = "I" -> "i" [] c = "J" -> "j" [] c = "K" -> "k" [] c = "L" -> "l"
      [] c = "M" -> "m" [] c = "N" -> "n" [] c = "O" -> "o" [] c = "P" -> "p"
      [] c = "Q" -> "q" [] c = "R" -> "r" [] c = "S" -> "s" [] c = "T" -> "t"
      [] c = "U" -> "u" [] c = "V" -> "v" [] c = "W" -> "w" [] c = "X" -> "x"
      [] c = "Y" -> "y" [] c = "Z" -> "z" [] OTHER -> c

RECURSIVE LowerFrom(_, _)
LowerFrom(s, i) ==
    IF i > Len(s) THEN "" ELSE LowerChar(Char(s, i)) \o LowerFrom(s, i + 1)

\* view_name.lower() (main.py line 300).
Lower(view_name) == LowerFrom(view_name, 1)

\* The job_id as an f-string formats it: "None" for None, the digits of an
\* int, the characters of a str.
FormatJobId(id) ==
    IF id = None THEN "None"
    ELSE CASE id[1].type = "int"  -> ToString(id[1].v)
           [] id[1].type = "str"  -> id[1].v
           [] id[1].type = "bool" -> IF id[1].v THEN "True" ELSE "False"

\* Filename with the 1-based number of the pass for the index.
FilenameOneBased(id, index, view_name) ==
    "job_" \o FormatJobId(id) \o "_view_" \o ToString(index + 1) \o "_"
        \o Lower(view_name) \o ".png"

\* main.py line 300: the filename upload_png_to_fileserver posts.
Filename(id, index, view_name) ==
    "job_" \o FormatJobId(id) \o "_view_" \o ToString(index) \o "_"
        \o Lower(view_name) \o ".png"

\* One pass of the loop of render_gcode (main.py lines 333-376) up to the
\* call of render_view(view, 1280, 720), which has called _prepare_geometry.
Renders(empty) ==
    /\ pc = "views"
    /\ view_index < Len(views)
    /\ view_index' = view_index + 1
    /\ desired_view' = views[view_index + 1]
    /\ _prepare_geometry(empty)
    /\ UNCHANGED <<pc, nozzle_x, nozzle_y, nozzle_z, absolute_movement, segments,
                   command, old, line, lineNo, printer_info, vertex_array,
                   normal_array, completed, slot_writes, returned>>
    /\ UNCHANGED messageVars
    /\ UNCHANGED textVars
    /\ UNCHANGED consumerVars

\* render_view ends with the outcome r.
ViewEnds(r) ==
    /\ view_result' = r.result
    /\ camera_pos' = r.camera_pos
    /\ live' = r.live

\* render_view raises (the context cannot be created, a call of the GPU
\* fails, or _bounds is None); main.py lines 371-372 log the exception.
ViewRaises(empty, fault) ==
    /\ Renders(empty)
    /\ fault # 0 \/ SubscriptsNone(_bounds')
    /\ ViewEnds(render_view(_bounds', desired_view', fault))
    /\ upload_success_count' = upload_success_count
    /\ filename' = ""

\* render_view returns the image and upload_png_to_fileserver returns True
\* (main.py lines 345-364).
ViewUploaded(empty) ==
    /\ Renders(empty)
    /\ ~SubscriptsNone(_bounds')
    /\ ViewEnds(render_view(_bounds', desired_view', 0))
    /\ upload_success_count' = upload_success_count + 1
    /\ filename' = Filename(job_id, view_index, desired_view')

\* render_view returns the image and upload_png_to_fileserver returns False
\* (main.py lines 345-366).
ViewUploadFails(empty) ==
    /\ Renders(empty)
    /\ ~SubscriptsNone(_bounds')
    /\ ViewEnds(render_view(_bounds', desired_view', 0))
    /\ upload_success_count' = upload_success_count
    /\ filename' = Filename(job_id, view_index, desired_view')

\* A render_gcode whose loop ends at the first view that raises.
ReturnViewsAtFirstFailure ==
    /\ pc = "views"
    /\ view_index = Len(views) \/ view_result = "raised"
    /\ pc' = "returned"
    /\ returned' = IF upload_success_count > 0 THEN "True" ELSE "False"
    /\ UNCHANGED <<nozzle_x, nozzle_y, nozzle_z, absolute_movement, segments,
                   command, old, line, lineNo, printer_info, _bounds,
                   _grid_vertex_list, _vertex_data, vertex_array, normal_array,
                   completed, slot_writes, geometry_runs, view_index,
                   view_result, upload_success_count>>
    /\ UNCHANGED viewVars
    /\ UNCHANGED messageVars
    /\ UNCHANGED textVars
    /\ UNCHANGED consumerVars

\* main.py lines 379-384: the loop is over and render_gcode returns.
ReturnViews ==
    /\ pc = "views"
    /\ view_index = Len(views)
    /\ pc' = "returned"
    /\ returned' = IF upload_success_count = Len(views) THEN "True"
                   ELSE IF upload_success_count > 0 THEN "True" ELSE "False"
    /\ UNCHANGED <<nozzle_x, nozzle_y, nozzle_z, absolute_movement, segments,
                   command, old, line, lineNo, printer_info, _bounds,
                   _grid_vertex_list, _vertex_data, vertex_array, normal_array,
                   completed, slot_writes, geometry_runs, view_index,
                   view_result, upload_success_count>>
    /\ UNCHANGED viewVars
    /\ UNCHANGED messageVars
    /\ UNCHANGED textVars
    /\ UNCHANGED consumerVars

\* main.py lines 386-388: Renderer(gcode_path, printer_info) raised an
\* Exception (the IndexError of a line of blanks); render_gcode returns
\* False.
RendererFails ==
    /\ pc = "crashed"
    /\ pc' = "returned"
    /\ returned' = "False"
    /\ UNCHANGED <<nozzle_x, nozzle_y, nozzle_z, absolute_movement, segments,
                   command, old, line, lineNo, printer_info, _bounds,
                   _grid_vertex_list, _vertex_data, vertex_array, normal_array,
                   completed, slot_writes, geometry_runs, view_index,
                   view_result, upload_success_count>>
    /\ UNCHANGED viewVars
    /\ UNCHANGED messageVars
    /\ UNCHANGED textVars
    /\ UNCHANGED consumerVars

\* sys.exit(1) of parse_gcode raised SystemExit, which is no Exception:
\* the handler of main.py line 386 does not catch it and it leaves
\* render_gcode through the finally clause of lines 389-391.
ExitPropagates ==
    /\ pc = "exited"
    /\ pc' = "left"
    /\ returned' = "SystemExit"
    /\ UNCHANGED <<nozzle_x, nozzle_y, nozzle_z, absolute_movement, segments,
                   command, old, line, lineNo, printer_info, _bounds,
                   _grid_vertex_list, _vertex_data, vertex_array, normal_array,
                   completed, slot_writes, geometry_runs, view_index,
                   view_result, upload_success_count>>
    /\ UNCHANGED viewVars
    /\ UNCHANGED messageVars
    /\ UNCHANGED textVars
    /\ UNCHANGED consumerVars

\* render_gcode(gcode_path, job_id, printer_info) on a file whose lines are
\* drawn from RenderFile.
NextRender ==
    \/ NextOver(RenderFile)
    \/ \E info \in PrinterInfos, empty \in Garbage : StartGeometry(info, empty)
    \/ \E i \in 1..MaxLines, empty \in Garbage : WorkerCompletes(i, empty)
    \/ FinishGeometry
    \/ \E empty \in Garbage, fault \in Faults : ViewRaises(empty, fault)
    \/ \E empty \in Garbage : ViewUploaded(empty)
    \/ \E empty \in Garbage : ViewUploadFails(empty)
    \/ ReturnViews
    \/ RendererFails
    \/ ExitPropagates

SpecRender == Init /\ [][NextRender]_vars

----------------------------------------------------------------------------
(* get_camera_position over a set of bounds                                *)

\* The extent of a toolpath along an axis, <<min, max>>: a point, a
\* millimetre, a centimetre, a range that starts below zero, a layer.
ExtentsX == {<<0, 0>>, <<0, 1000>>, <<0, 10000>>, <<-5000, 10000>>}

ExtentsY == {<<0, 0>>, <<0, 10000>>}

ExtentsZ == {<<0, 0>>, <<0, 5000>>, <<200, 200>>}

\* The Renderer of a toolpath of one Segment that runs from the least to
\* the greatest corner of its bounds, constructed with the default printer:
\* the state in which render_view calls get_camera_position.
InitCamera ==
    /\ pc = "camera"
    /\ \E x \in ExtentsX, y \in ExtentsY, z \in ExtentsZ :
          /\ segments = << << <<x[1], y[1], z[1]>>, <<x[2], y[2], z[2]>> >> >>
          /\ nozzle_x = x[2]
          /\ nozzle_y = y[2]
          /\ nozzle_z = z[2]
    /\ absolute_movement = TRUE
    /\ command = NoCommand
    /\ old = <<0, 0, 0>>
    /\ line = ""
    /\ lineNo = 0
    /\ printer_info = Some(DEFAULT_PRINTER_INFO)
    /\ _bounds = get_bounds(segments)
    /\ _grid_vertex_list = Some(get_grid_vertex_list(DEFAULT_PRINTER_INFO, 10000))
    /\ completed = AllCompleted(segments, <<0, 0, 0>>)
    /\ vertex_array = Scattered(segments, completed, <<0, 0, 0>>).vertex_array
    /\ normal_array = Scattered(segments, completed, <<0, 0, 0>>).normal_array
    /\ slot_writes = Scattered(segments, completed, <<0, 0, 0>>).writes
    /\ _vertex_data = Some(VertexData(Scattered(segments, completed, <<0, 0, 0>>)))
    /\ geometry_runs = 1
    /\ view_index = 0
    /\ view_result = ""
    /\ upload_success_count = 0
    /\ returned = ""
    /\ desired_view = ""
    /\ camera_pos = None
    /\ live = {}
    /\ filename = ""
    /\ body = None
    /\ job_id = None
    /\ connection = "none"
    /\ channel = "none"
    /\ acks = <<>>
    /\ temp_file = "none"
    /\ processing_message = FALSE
    /\ should_stop = FALSE
    /\ gcode_content = None
    /\ first_parse = None
    /\ NeverConnected

\* Renderer.py line 417: camera_pos = self.get_camera_position(desired_view).
GetCameraPosition(view) ==
    /\ pc = "camera"
    /\ ~SubscriptsNone(_bounds)
    /\ desired_view' = view
    /\ camera_pos' = Some(get_camera_position(_bounds[1], view))
    /\ UNCHANGED <<pc, nozzle_x, nozzle_y, nozzle_z, absolute_movement, segments,
                   command, old, line, lineNo, printer_info, _bounds,
                   _grid_vertex_list, _vertex_data, vertex_array, normal_array,
                   completed, slot_writes, geometry_runs, view_index,
                   view_result, upload_success_count, returned, live, filename>>
    /\ UNCHANGED messageVars
    /\ UNCHANGED textVars
    /\ UNCHANGED consumerVars

NextCamera == \E i \in 1..Len(views) : GetCameraPosition(views[i])

SpecCamera == InitCamera /\ [][NextCamera]_vars

----------------------------------------------------------------------------
(* json.loads(body.decode('utf-8')) and message.get('JobId')               *)

\* In a body the character # stands for a byte that no UTF-8 text holds.
\* body.decode('utf-8'): None when it raises UnicodeDecodeError.
decode(bytes) ==
    IF IndexFrom(bytes, "#", 1) <= Len(bytes) THEN None ELSE Some(bytes)

\* The scanner of json found no value, or a value v that ends before next.
Failure == [ok |-> FALSE]

Found(v, next) == [ok |-> TRUE, v |-> v, next |-> next]

\* Index of the first character of s at or after i that is no digit.
RECURSIVE ScanDigits(_, _)
ScanDigits(s, i) ==
    IF Char(s, i) \in Digits THEN ScanDigits(s, i + 1) ELSE i

\* An integer: an optional sign, then 0 or digits that do not start with 0.
ParseNumber(s, i) ==
    LET start == IF Char(s, i) = "-" THEN i + 1 ELSE i
        end   == ScanDigits(s, start)
        value == Whole(Slice(s, start, end - 1))
    IN  IF end = start THEN Failure
        ELSE IF end - start > 1 /\ Char(s, start) = "0" THEN Failure
        ELSE Found([type |-> "int", v |-> IF start > i THEN -value ELSE value], end)

\* A string without escapes, its opening quote at i.
ParseString(s, i) ==
    LET end == IndexFrom(s, "\"", i + 1)
    IN  IF Char(s, i) # "\"" \/ end > Len(s) THEN Failure
        ELSE Found([type |-> "str", v |-> Slice(s, i + 1, end - 1)], end + 1)

\* The value that starts at or after i, the elements of an array after its
\* bracket or a comma, and the members of an object after its brace or a
\* comma; acc holds the elements or members read so far.
RECURSIVE ParseValue(_, _)
RECURSIVE ParseElements(_, _, _)
RECURSIVE ParseMembers(_, _, _)

AfterElement(s, r, acc) ==
    IF ~r.ok THEN Failure
    ELSE IF Char(s, SkipBlanks(s, r.next)) = ","
    THEN ParseElements(s, SkipBlanks(s, r.next) + 1, Append(acc, r.v))
    ELSE IF Char(s, SkipBlanks(s, r.next)) = "]"
    THEN Found([type |-> "list", v |-> Append(acc, r.v)], SkipBlanks(s, r.next) + 1)
    ELSE Failure

ParseElements(s, i, acc) == AfterElement(s, ParseValue(s, i), acc)

AfterMember(s, key, r, acc) ==
    IF ~r.ok THEN Failure
    ELSE IF Char(s, SkipBlanks(s, r.next)) = ","
    THEN ParseMembers(s, SkipBlanks(s, r.next) + 1, Append(acc, <<key, r.v>>))
    ELSE IF Char(s, SkipBlanks(s, r.next)) = "}"
    THEN Found([type |-> "dict", v |-> Append(acc, <<key, r.v>>)],
               SkipBlanks(s, r.next) + 1)
    ELSE Failure

AfterKey(s, k, acc) ==
    IF ~k.ok THEN Failure
    ELSE IF Char(s, SkipBlanks(s, k.next)) # ":" THEN Failure
    ELSE AfterMember(s, k.v.v, ParseValue(s, SkipBlanks(s, k.next) + 1), acc)

ParseMembers(s, i, acc) == AfterKey(s, ParseString(s, SkipBlanks(s, i)), acc)

\* The word stands in s at i.
Literal(s, i, word) ==
    i + Len(word) - 1 <= Len(s) /\ Slice(s, i, i + Len(word) - 1) = word

ValueAt(s, i) ==
    CASE Char(s, i) = "{" ->
            IF Char(s, SkipBlanks(s, i + 1)) = "}"
            THEN Found([type |-> "dict", v |-> <<>>], SkipBlanks(s, i + 1) + 1)
            ELSE ParseMembers(s, i + 1, <<>>)
      [] Char(s, i) = "[" ->
            IF Char(s, SkipBlanks(s, i + 1)) = "]"
            THEN Found([type |-> "list", v |-> <<>>], SkipBlanks(s, i + 1) + 1)
            ELSE ParseElements(s, i + 1, <<>>)
      [] Char(s, i) = "\"" -> ParseString(s, i)
      [] Literal(s, i, "null")  -> Found([type |-> "null", v |-> FALSE], i + 4)
      [] Literal(s, i, "true")  -> Found([type |-> "bool", v |-> TRUE], i + 4)
      [] Literal(s, i, "false") -> Found([type |-> "bool", v |-> FALSE], i + 5)
      [] OTHER -> ParseNumber(s, i)

ParseValue(s, i) == ValueAt(s, SkipBlanks(s, i))

\* json.loads(text) for texts of objects, arrays, strings without escapes,
\* integers, true, false and null: None when it raises JSONDecodeError.
json_loads(text) ==
    LET r == ParseValue(text, 1)
    IN  IF r.ok /\ SkipBlanks(text, r.next) > Len(text) THEN Some(r.v) ELSE None

\* dict.get(key) on the members of an object; the last of equal keys
\* counts, and both a missing key and null give None.
Get(members, key) ==
    LET at == {n \in 1..Len(members) : members[n][1] = key}
        last == CHOOSE n \in at : \A m \in at : m <= n
    IN  IF at = {} THEN None
        ELSE IF members[last][2].type = "null" THEN None
        ELSE Some(members[last][2])

\* bool(value) of a value of json that is not None.
TruthyValue(value) ==
    CASE value.type = "bool" -> value.v
      [] value.type = "int"  -> value.v # 0
      [] value.type = "str"  -> value.v # ""
      [] value.type = "list" -> value.v # <<>>
      [] value.type = "dict" -> value.v # <<>>

----------------------------------------------------------------------------
(* main.process_message                                                    *)

\* The bodies of the messages delivered: jobs with a number and with a
\* string for JobId, objects without a JobId or with one that is false,
\* values that are no object, texts that are no JSON, bytes that are no
\* UTF-8.
Bodies ==
    {"{\"JobId\": 42}", "{\"JobId\": \"a7\"}", "{}", "{\"JobId\": 0}",
     "{\"JobId\": null}", "[42]", "{\"JobId\": 42", "", "#"}

\* Lines 428-431: what becomes of the body.
\*   "undecodable"  body.decode raises UnicodeDecodeError
\*   "invalid"      json.loads raises JSONDecodeError
\*   "no_get"       message is no dict: message.get raises AttributeError
\*   "no_job_id"    `not job_id`
\*   "job"          otherwise
Received(bytes) ==
    IF decode(bytes) = None THEN "undecodable"
    ELSE IF json_loads(decode(bytes)[1]) = None THEN "invalid"
    ELSE IF json_loads(decode(bytes)[1])[1].type # "dict" THEN "no_get"
    ELSE IF Get(json_loads(decode(bytes)[1])[1].v, "JobId") = None THEN "no_job_id"
    ELSE IF ~TruthyValue(Get(json_loads(decode(bytes)[1])[1].v, "JobId")[1])
    THEN "no_job_id"
    ELSE "job"

\* Line 429: job_id after message.get('JobId'); line 421 where it is not
\* reached.
JobIdOf(bytes) ==
    IF Received(bytes) \in {"no_job_id", "job"}
    THEN Get(json_loads(decode(bytes)[1])[1].v, "JobId")
    ELSE None

\* A test that never finds the connection closed.
UnusableNever(conn, ch) == FALSE

\* The test of lines 439, 456 and 464.
Unusable(conn, ch) == conn # "open" \/ ch # "open"

\* Lines 394-402: safe_ack calls basic_ack on a channel that is not closed.
safe_ack(ch, sent) ==
    IF ch = "open" THEN Append(sent, <<"basic_ack">>) ELSE sent

\* Lines 405-413: safe_nack calls basic_nack on a channel that is not
\* closed.
safe_nack(ch, sent, requeue) ==
    IF ch = "open" THEN Append(sent, <<"basic_nack", requeue>>) ELSE sent

\* Lines 491-500: the finally clause of process_message.  connection.close()
\* closes the channels of the connection.
Finally ==
    /\ processing_message' = FALSE
    /\ connection' = IF should_stop /\ connection = "open" THEN "closed"
                     ELSE connection
    /\ channel' = IF should_stop /\ connection = "open" THEN "closed"
                  ELSE channel

\* The fields of the Renderer and of render_gcode, untouched outside it.
renderVars ==
    <<nozzle_x, nozzle_y, nozzle_z, absolute_movement, segments, command, old,
      line, lineNo, printer_info, _bounds, _grid_vertex_list, _vertex_data,
      vertex_array, normal_array, completed, slot_writes, geometry_runs,
      view_index, view_result, upload_success_count, returned>>

\* The state when pika calls process_message(ch, method, properties, body):
\* the connection and the channel are open, nothing has been rendered.
InitMessage ==
    /\ pc = "delivered"
    /\ body \in Bodies
    /\ job_id = None
    /\ connection = "open"
    /\ channel = "open"
    /\ acks = <<>>
    /\ temp_file = "none"
    /\ processing_message = FALSE
    /\ should_stop = FALSE
    /\ nozzle_x = 0
    /\ nozzle_y = 0
    /\ nozzle_z = 0
    /\ absolute_movement = TRUE
    /\ segments = <<>>
    /\ command = NoCommand
    /\ old = <<0, 0, 0>>
    /\ line = ""
    /\ lineNo = 0
    /\ printer_info = None
    /\ _bounds = None
    /\ _grid_vertex_list = None
    /\ _vertex_data = None
    /\ vertex_array = <<>>
    /\ normal_array = <<>>
    /\ completed = <<>>
    /\ slot_writes = <<>>
    /\ geometry_runs = 0
    /\ view_index = 0
    /\ view_result = ""
    /\ upload_success_count = 0
    /\ returned = ""
    /\ desired_view = ""
    /\ camera_pos = None
    /\ live = {}
    /\ filename = ""
    /\ gcode_content = None
    /\ first_parse = None
    /\ ConnectedAtStart

\* Lines 416-445: process_message up to the download.  The body is decoded
\* and parsed; a body that cannot be decoded or is no dict ends in the
\* handler of line 488, one that is no JSON in that of line 485, one
\* without a JobId at line 433, each followed by the finally clause; so
\* does a closed connection (line 442).
Receive ==
    /\ pc = "delivered"
    /\ job_id' = JobIdOf(body)
    /\ IF Received(body) = "job" /\ ~Unusable(connection, channel)
       THEN /\ pc' = "downloading"
            /\ processing_message' = TRUE
            /\ UNCHANGED <<acks, connection, channel>>
       ELSE /\ pc' = "finished"
            /\ acks' = CASE Received(body) \in {"undecodable", "no_get"} ->
                              safe_nack(channel, acks, TRUE)
                         [] Received(body) \in {"invalid", "no_job_id"} ->
                              safe_nack(channel, acks, FALSE)
                         [] OTHER -> acks
            /\ Finally
    /\ UNCHANGED <<body, temp_file, should_stop>>
    /\ UNCHANGED renderVars
    /\ UNCHANGED viewVars
    /\ UNCHANGED textVars
    /\ UNCHANGED consumerVars

\* What download_gcode_file does (lines 267-291): it returns the name of the
\* temporary file; requests raises and it returns None; creating or writing
\* the temporary file raises OSError, which it does not catch.
Downloads == {"downloaded", "request_failed", "write_failed"}

\* Lines 448-458: the download, and the test of the connection before
\* rendering.  A failed download is nacked at line 451 (or at line 490 for
\* an OSError, which leaves the file it was writing); a closed connection
\* ends the message at line 458 through the unlink of line 477.
Download(outcome) ==
    /\ pc = "downloading"
    /\ IF outcome = "downloaded" /\ ~Unusable(connection, channel)
       THEN /\ pc' = "read"
            /\ temp_file' = "exists"
            /\ UNCHANGED <<acks, connection, channel, processing_message>>
       ELSE /\ pc' = "finished"
            /\ temp_file' = CASE outcome = "downloaded"     -> "deleted"
                              [] outcome = "write_failed"   -> "exists"
                              [] outcome = "request_failed" -> "none"
            /\ acks' = IF outcome = "downloaded" THEN acks
                       ELSE safe_nack(channel, acks, TRUE)
            /\ Finally
    /\ UNCHANGED <<body, job_id, should_stop>>
    /\ UNCHANGED renderVars
    /\ UNCHANGED viewVars
    /\ UNCHANGED textVars
    /\ UNCHANGED consumerVars

\* A process_message whose return at line 467 is outside the try of line
\* 454, so that a connection found closed skips the unlink.
AcknowledgeKeepsFile ==
    /\ pc = "returned"
    /\ pc' = "finished"
    /\ acks' = IF Unusable(connection, channel) THEN acks
               ELSE IF returned = "True" THEN safe_ack(channel, acks)
               ELSE safe_nack(channel, acks, TRUE)
    /\ temp_file' = IF Unusable(connection, channel) THEN temp_file
                    ELSE "deleted"
    /\ Finally
    /\ UNCHANGED <<body, job_id, should_stop>>
    /\ UNCHANGED renderVars
    /\ UNCHANGED viewVars
    /\ UNCHANGED textVars
    /\ UNCHANGED consumerVars

\* Lines 461-483 and 491-500 once render_gcode has returned: no
\* acknowledgement when the connection is closed (line 467), else basic_ack
\* for True and basic_nack for False; the file is unlinked.
Acknowledge ==
    /\ pc = "returned"
    /\ pc' = "finished"
    /\ acks' = IF Unusable(connection, channel) THEN acks
               ELSE IF returned = "True" THEN safe_ack(channel, acks)
               ELSE safe_nack(channel, acks, TRUE)
    /\ temp_file' = "deleted"
    /\ Finally
    /\ UNCHANGED <<body, job_id, should_stop>>
    /\ UNCHANGED renderVars
    /\ UNCHANGED viewVars
    /\ UNCHANGED textVars
    /\ UNCHANGED consumerVars

\* SystemExit leaves render_gcode (line 461): the finally clauses of lines
\* 475-483 and 491-500 run, no handler of process_message catches it, and
\* it is raised into the consumer.
ExitLeaves ==
    /\ pc = "left"
    /\ pc' = "exit_raised"
    /\ temp_file' = "deleted"
    /\ Finally
    /\ UNCHANGED <<body, job_id, acks, should_stop>>
    /\ UNCHANGED renderVars
    /\ UNCHANGED viewVars
    /\ UNCHANGED textVars
    /\ UNCHANGED consumerVars

\* The points of start_consumer and of connect_rabbitmq, between which a
\* signal may arrive or the broker close the connection.
ConsumerPoints ==
    {"start_consumer", "connect", "connect_loop", "attempting", "connect_done",
     "loop", "consuming", "processing", "handling", "finally", "finally_exit"}

\* The points at which the model lets the connection drop or a signal
\* arrive: in process_message before line 419, during the download, and
\* during render_gcode, which reads neither the connection nor should_stop;
\* in the consumer everywhere.
Interruptible == {"delivered", "downloading", "returned"} \cup ConsumerPoints

\* The broker or the network closes the connection, and its channel.
ConnectionDrops ==
    /\ pc \in Interruptible
    /\ connection = "open"
    /\ connection' = "closed"
    /\ channel' = "closed"
    /\ UNCHANGED <<pc, body, job_id, acks, temp_file, processing_message,
                   should_stop>>
    /\ UNCHANGED renderVars
    /\ UNCHANGED viewVars
    /\ UNCHANGED textVars
    /\ UNCHANGED consumerVars

\* A handler that closes the connection whether or not a message is being
\* processed.
signal_handlerAlwaysCloses ==
    /\ pc \in Interruptible
    /\ ~should_stop
    /\ should_stop' = TRUE
    /\ connection' = "closed"
    /\ channel' = "closed"
    /\ UNCHANGED <<pc, body, job_id, acks, temp_file, processing_message>>
    /\ UNCHANGED renderVars
    /\ UNCHANGED viewVars
    /\ UNCHANGED textVars
    /\ UNCHANGED consumerVars

\* Lines 56-78: SIGINT or SIGTERM.  The connection is closed at once only
\* when no message is being processed.
signal_handler ==
    /\ pc \in Interruptible
    /\ ~should_stop
    /\ should_stop' = TRUE
    /\ connection' = IF ~processing_message /\ connection = "open" THEN "closed"
                     ELSE connection
    /\ channel' = IF ~processing_message /\ connection = "open" THEN "closed"
                  ELSE channel
    /\ UNCHANGED <<pc, body, job_id, acks, temp_file, processing_message>>
    /\ UNCHANGED renderVars
    /\ UNCHANGED viewVars
    /\ UNCHANGED textVars
    /\ UNCHANGED consumerVars

\* The lines of the files downloaded in SpecMessage: a line for each case
\* of parse_gcode.
MessageFile ==
    {"", "  ", "G90", "G91", "G92 X0 Y0 E0", "M104 S200", "G1 X10 Y10 E1",
     "G3 X-5 E1"}

\* The lines of render_view where a call is taken to raise in SpecMessage:
\* creating the context (390), uploading the vertex buffer (411); 0 for a
\* call where nothing fails.
MessageFaults == {0, 390, 411}

\* process_message on one delivered message.
NextMessage ==
    \/ Receive
    \/ \E outcome \in Downloads : Download(outcome)
    \/ NextOver(MessageFile)
    \/ \E info \in PrinterInfos : StartGeometry(info, <<0, 0, 0>>)
    \/ \E i \in 1..MaxLines : WorkerCompletes(i, <<0, 0, 0>>)
    \/ FinishGeometry
    \/ \E fault \in MessageFaults : ViewRaises(<<0, 0, 0>>, fault)
    \/ ViewUploaded(<<0, 0, 0>>)
    \/ ViewUploadFails(<<0, 0, 0>>)
    \/ ReturnViews
    \/ RendererFails
    \/ ExitPropagates
    \/ Acknowledge
    \/ ExitLeaves
    \/ ConnectionDrops
    \/ signal_handler

SpecMessage == InitMessage /\ [][NextMessage]_vars

----------------------------------------------------------------------------
(* Two GcodeManagers on one text                                           *)

\* The lines of the texts parsed twice.
TwiceFile == EveryCase

\* The texts: the files of at most MaxLines lines of TwiceFile.
Texts == UNION {[1..n -> TwiceFile] : n \in 0..MaxLines}

\* What parse_gcode left: how it ended, self.segments and get_bounds().
Parsed(ended, segs) ==
    [ended |-> ended, segments |-> segs, bounds |-> get_bounds(segs)]

\* __init__ with segments a list shared by the instances of the class.
NewManagerSharingSegments(previous) ==
    [nozzle_x |-> 0, nozzle_y |-> 0, nozzle_z |-> 0,
     absolute_movement |-> TRUE, segments |-> previous]

\* GcodeManager.__init__ lines 5-11: the fields of a new instance, whatever
\* the segments of the previous one.
NewManager(previous) ==
    [nozzle_x |-> 0, nozzle_y |-> 0, nozzle_z |-> 0,
     absolute_movement |-> TRUE, segments |-> <<>>]

\* GcodeManager(file_path) on a file whose text is one of Texts.
InitTwice ==
    /\ pc = "read"
    /\ gcode_content \in {Some(text) : text \in Texts}
    /\ first_parse = None
    /\ NeverConnected
    /\ nozzle_x = NewManager(<<>>).nozzle_x
    /\ nozzle_y = NewManager(<<>>).nozzle_y
    /\ nozzle_z = NewManager(<<>>).nozzle_z
    /\ absolute_movement = NewManager(<<>>).absolute_movement
    /\ segments = NewManager(<<>>).segments
    /\ command = NoCommand
    /\ old = <<0, 0, 0>>
    /\ line = ""
    /\ lineNo = 0
    /\ printer_info = None
    /\ _bounds = None
    /\ _grid_vertex_list = None
    /\ _vertex_data = None
    /\ vertex_array = <<>>
    /\ normal_array = <<>>
    /\ completed = <<>>
    /\ slot_writes = <<>>
    /\ geometry_runs = 0
    /\ view_index = 0
    /\ view_result = ""
    /\ upload_success_count = 0
    /\ returned = ""
    /\ desired_view = ""
    /\ camera_pos = None
    /\ live = {}
    /\ filename = ""
    /\ body = None
    /\ job_id = None
    /\ connection = "none"
    /\ channel = "none"
    /\ acks = <<>>
    /\ temp_file = "none"
    /\ processing_message = FALSE
    /\ should_stop = FALSE

\* Line 153: l is the next line of gcode_content.splitlines().
NextLine(l) ==
    /\ lineNo < Len(gcode_content[1])
    /\ l = gcode_content[1][lineNo + 1]

\* Line 153: the loop has taken every line of the text.
NoLineLeft == lineNo = Len(gcode_content[1])

\* A second GcodeManager(file_path) is constructed on the same file once
\* the first has parsed it or has raised.
ParseAgain ==
    /\ pc \in {"done", "crashed"}
    /\ first_parse = None
    /\ first_parse' = Some(Parsed(pc, segments))
    /\ pc' = "read"
    /\ nozzle_x' = NewManager(segments).nozzle_x
    /\ nozzle_y' = NewManager(segments).nozzle_y
    /\ nozzle_z' = NewManager(segments).nozzle_z
    /\ absolute_movement' = NewManager(segments).absolute_movement
    /\ segments' = NewManager(segments).segments
    /\ command' = NoCommand
    /\ old' = <<0, 0, 0>>
    /\ line' = ""
    /\ lineNo' = 0
    /\ UNCHANGED gcode_content
    /\ UNCHANGED rendererVars
    /\ UNCHANGED messageVars
    /\ UNCHANGED consumerVars

NextTwice ==
    \/ ReadFile
    \/ ReadFileFails
    \/ \E l \in TwiceFile : NextLine(l) /\ Step(l)
    \/ NoLineLeft /\ EndOfFile
    \/ ParseAgain

SpecTwice == InitTwice /\ [][NextTwice]_vars

----------------------------------------------------------------------------
(* start_consumer and connect_rabbitmq                                     *)

\* main.py line 119.
max_retries == 5

\* What the consumer leaves alone: the message and the renderer.
ConsumerFrame ==
    /\ UNCHANGED <<body, job_id, acks, temp_file>>
    /\ UNCHANGED renderVars
    /\ UNCHANGED viewVars
    /\ UNCHANGED textVars

\* start_consumer after it has registered signal_handler (lines 508-509):
\* the globals as lines 49-53 set them.
InitConsumer ==
    /\ pc = "start_consumer"
    /\ nozzle_x = 0
    /\ nozzle_y = 0
    /\ nozzle_z = 0
    /\ absolute_movement = TRUE
    /\ segments = <<>>
    /\ command = NoCommand
    /\ old = <<0, 0, 0>>
    /\ line = ""
    /\ lineNo = 0
    /\ printer_info = None
    /\ _bounds = None
    /\ _grid_vertex_list = None
    /\ _vertex_data = None
    /\ vertex_array = <<>>
    /\ normal_array = <<>>
    /\ completed = <<>>
    /\ slot_writes = <<>>
    /\ geometry_runs = 0
    /\ view_index = 0
    /\ view_result = ""
    /\ upload_success_count = 0
    /\ returned = ""
    /\ desired_view = ""
    /\ camera_pos = None
    /\ live = {}
    /\ filename = ""
    /\ body = None
    /\ job_id = None
    /\ connection = "none"
    /\ channel = "none"
    /\ acks = <<>>
    /\ temp_file = "none"
    /\ processing_message = FALSE
    /\ should_stop = FALSE
    /\ gcode_content = None
    /\ first_parse = None
    /\ NeverConnected

\* Line 512: start_consumer calls connect_rabbitmq.
StartConsumer ==
    /\ pc = "start_consumer"
    /\ pc' = "connect"
    /\ caller' = "start"
    /\ UNCHANGED <<connection, channel, processing_message, should_stop,
                   retry_count, connect_returned, queue_declared,
                   prefetch_count>>
    /\ ConsumerFrame

\* Lines 81-121 of connect_rabbitmq: an open connection is closed, and its
\* channel with it; retry_count = 0.  The wait of lines 86-94 is for a
\* process_message that is running, which is never so where the one thread
\* of the service calls connect_rabbitmq.
ConnectEnters ==
    /\ pc = "connect"
    /\ pc' = "connect_loop"
    /\ connection' = IF connection = "open" THEN "closed" ELSE connection
    /\ channel' = IF connection = "open" THEN "closed" ELSE channel
    /\ retry_count' = 0
    /\ connect_returned' = ""
    /\ UNCHANGED <<processing_message, should_stop, caller, queue_declared,
                   prefetch_count>>
    /\ ConsumerFrame

\* A loop that tests retry_count alone.
AttemptStartsWhileStopping ==
    /\ pc = "connect_loop"
    /\ retry_count < max_retries
    /\ pc' = "attempting"
    /\ UNCHANGED <<connection, channel, processing_message, should_stop>>
    /\ UNCHANGED consumerVars
    /\ ConsumerFrame

\* Line 122: `while retry_count < max_retries and not should_stop` lets an
\* attempt start.
AttemptStarts ==
    /\ pc = "connect_loop"
    /\ retry_count < max_retries /\ ~should_stop
    /\ pc' = "attempting"
    /\ UNCHANGED <<connection, channel, processing_message, should_stop>>
    /\ UNCHANGED consumerVars
    /\ ConsumerFrame

\* Lines 122 and 150: the loop is not entered again and connect_rabbitmq
\* returns False.
LoopExits ==
    /\ pc = "connect_loop"
    /\ ~(retry_count < max_retries /\ ~should_stop)
    /\ pc' = "connect_done"
    /\ connect_returned' = "False"
    /\ UNCHANGED <<connection, channel, processing_message, should_stop,
                   retry_count, caller, queue_declared, prefetch_count>>
    /\ ConsumerFrame

\* How an attempt (lines 123-139) ends: every call succeeds; BlockingConnection
\* raises; the connection is open and channel() or queue_declare raises;
\* the queue is declared and basic_qos raises.
AttemptOutcomes == {"connected", "refused", "declare_failed", "qos_failed"}

\* Lines 123-148: one attempt.  What the calls before the one that raised
\* assigned stays assigned: the handler of line 140 closes nothing.  A
\* channel on which a call raised is closed.
AttemptEnds(outcome) ==
    /\ pc = "attempting"
    /\ connection' = IF outcome = "refused" THEN connection ELSE "open"
    /\ channel' = CASE outcome = "connected" -> "open"
                    [] outcome = "refused"   -> channel
                    [] OTHER                 -> "closed"
    /\ queue_declared' = CASE outcome = "refused"        -> queue_declared
                           [] outcome = "declare_failed" -> FALSE
                           [] OTHER                      -> TRUE
    /\ prefetch_count' = CASE outcome = "refused"   -> prefetch_count
                           [] outcome = "connected" -> 1
                           [] OTHER                 -> 0
    /\ IF outcome = "connected"
       THEN /\ connect_returned' = "True"
            /\ pc' = "connect_done"
            /\ UNCHANGED retry_count
       ELSE /\ retry_count' = retry_count + 1
            /\ IF retry_count + 1 < max_retries
               THEN pc' = "connect_loop" /\ UNCHANGED connect_returned
               ELSE pc' = "connect_done" /\ connect_returned' = "False"
    /\ UNCHANGED <<processing_message, should_stop, caller>>
    /\ ConsumerFrame

\* connect_rabbitmq has returned to start_consumer: to line 512, where False
\* is sys.exit(1) (line 514, before the try of line 517), or to a handler,
\* where True is `continue` and False is `break`.
ConnectReturns ==
    /\ pc = "connect_done"
    /\ pc' = IF connect_returned = "True" THEN "loop"
             ELSE IF caller = "start" THEN "sys_exit" ELSE "finally"
    /\ UNCHANGED <<connection, channel, processing_message, should_stop>>
    /\ UNCHANGED consumerVars
    /\ ConsumerFrame

\* The classes of exception start_consumer has a handler for (lines 575,
\* 595, 615).
ExceptionClasses ==
    {"ConnectionClosedByBroker", "AMQPConnectionError", "Exception"}

\* Lines 522-548: the test of the loop, basic_consume and the call of
\* start_consuming; basic_consume raises on a channel that is not open.
Consume(exc) ==
    /\ pc = "loop"
    /\ IF should_stop
       THEN pc' = "finally" /\ UNCHANGED caller
       ELSE IF ~Unusable(connection, channel)
       THEN pc' = "consuming" /\ UNCHANGED caller
       ELSE pc' = "handling" /\ caller' = exc
    /\ UNCHANGED <<connection, channel, processing_message, should_stop,
                   retry_count, connect_returned, queue_declared,
                   prefetch_count>>
    /\ ConsumerFrame

\* start_consuming calls process_message for a delivery (line 419).
Deliver ==
    /\ pc = "consuming"
    /\ ~Unusable(connection, channel) /\ ~should_stop
    /\ pc' = "processing"
    /\ processing_message' = TRUE
    /\ UNCHANGED <<connection, channel, should_stop>>
    /\ UNCHANGED consumerVars
    /\ ConsumerFrame

\* process_message returns into start_consuming (lines 491-500).
ProcessReturns ==
    /\ pc = "processing"
    /\ pc' = "consuming"
    /\ Finally
    /\ UNCHANGED should_stop
    /\ UNCHANGED consumerVars
    /\ ConsumerFrame

\* process_message is left by SystemExit (lines 491-500), which no handler
\* of start_consumer catches: its finally clause is next.
ProcessExits ==
    /\ pc = "processing"
    /\ pc' = "finally_exit"
    /\ Finally
    /\ UNCHANGED should_stop
    /\ UNCHANGED consumerVars
    /\ ConsumerFrame

\* Lines 548-569: start_consuming returns because stop_consuming was called
\* or the connection is closed; `break` when should_stop, else the raise of
\* line 566 or of line 569.
ConsumingStops ==
    /\ pc = "consuming"
    /\ should_stop \/ Unusable(connection, channel)
    /\ IF should_stop
       THEN pc' = "finally" /\ UNCHANGED caller
       ELSE /\ pc' = "handling"
            /\ caller' = IF connection # "open" THEN "ConnectionClosedByBroker"
                         ELSE "AMQPConnectionError"
    /\ UNCHANGED <<connection, channel, processing_message, should_stop,
                   retry_count, connect_returned, queue_declared,
                   prefetch_count>>
    /\ ConsumerFrame

\* Lines 548-573: start_consuming returns with the connection and the
\* channel open and should_stop not set; `continue`.
ConsumingCancelled ==
    /\ pc = "consuming"
    /\ ~should_stop /\ ~Unusable(connection, channel)
    /\ pc' = "loop"
    /\ UNCHANGED <<connection, channel, processing_message, should_stop>>
    /\ UNCHANGED consumerVars
    /\ ConsumerFrame

\* start_consuming raises: an exception of the connection once it is
\* closed, or some other Exception.
ConsumingRaises(exc) ==
    /\ pc = "consuming"
    /\ exc = "Exception" \/ Unusable(connection, channel)
    /\ pc' = "handling"
    /\ caller' = exc
    /\ UNCHANGED <<connection, channel, processing_message, should_stop,
                   retry_count, connect_returned, queue_declared,
                   prefetch_count>>
    /\ ConsumerFrame

\* Lines 575-638, the three handlers: with should_stop set the first two
\* fall through to the test of the loop and the third is `break`; else
\* they call connect_rabbitmq, the third only when the connection is
\* closed.
Handle ==
    /\ pc = "handling"
    /\ pc' = IF should_stop
             THEN IF caller = "Exception" THEN "finally" ELSE "loop"
             ELSE IF caller = "Exception" /\ connection = "open" THEN "loop"
             ELSE "connect"
    /\ UNCHANGED <<connection, channel, processing_message, should_stop>>
    /\ UNCHANGED consumerVars
    /\ ConsumerFrame

\* Lines 645-658: the finally clause of start_consumer closes an open
\* connection; start_consumer returns, or SystemExit goes on.
FinallyClause ==
    /\ pc \in {"finally", "finally_exit"}
    /\ pc' = IF pc = "finally" THEN "stopped" ELSE "sys_exit"
    /\ connection' = IF connection = "open" THEN "closed" ELSE connection
    /\ channel' = IF connection = "open" THEN "closed" ELSE channel
    /\ UNCHANGED <<processing_message, should_stop>>
    /\ UNCHANGED consumerVars
    /\ ConsumerFrame

\* The steps of the one thread of the service, each of which ends: the
\* attempts by the timeouts of lines 110-116, process_message by those of
\* its requests.
ConsumerStep ==
    \/ StartConsumer
    \/ ConnectEnters
    \/ AttemptStarts
    \/ LoopExits
    \/ \E outcome \in AttemptOutcomes : AttemptEnds(outcome)
    \/ ConnectReturns
    \/ \E exc \in ExceptionClasses : Consume(exc)
    \/ ProcessReturns
    \/ ProcessExits
    \/ ConsumingStops
    \/ Handle
    \/ FinallyClause

\* start_consumer with the broker and the signals around it.
NextConsumer ==
    \/ ConsumerStep
    \/ Deliver
    \/ ConsumingCancelled
    \/ \E exc \in ExceptionClasses : ConsumingRaises(exc)
    \/ ConnectionDrops
    \/ signal_handler

\* The thread goes on while it has a step to take; nothing is asked of the
\* broker or of the signals.
SpecConsumer == InitConsumer /\ [][NextConsumer]_vars /\ WF_vars(ConsumerStep)

----------------------------------------------------------------------------
(* A message the broker delivers again                                     *)

\* The texts of the file of the job: no line, a line that moves nothing, a
\* line of blanks, and texts with a Segment.
RedeliveredTexts ==
    {<<>>,
     <<"G90">>,
     <<"  ">>,
     <<"", "G91", "G1 X10 Y10 E1">>,
     <<"G92 X0 Y0 E0", "M104 S200", "G3 X-5 E1">>}

\* pika calls process_message with the message of job 42, whose file has
\* one of the texts; the connection was set up by connect_rabbitmq.
InitRedelivery ==
    /\ pc = "delivered"
    /\ body = "{\"JobId\": 42}"
    /\ gcode_content \in {Some(text) : text \in RedeliveredTexts}
    /\ job_id = None
    /\ connection = "open"
    /\ channel = "open"
    /\ acks = <<>>
    /\ temp_file = "none"
    /\ processing_message = FALSE
    /\ should_stop = FALSE
    /\ nozzle_x = 0
    /\ nozzle_y = 0
    /\ nozzle_z = 0
    /\ absolute_movement = TRUE
    /\ segments = <<>>
    /\ command = NoCommand
    /\ old = <<0, 0, 0>>
    /\ line = ""
    /\ lineNo = 0
    /\ printer_info = None
    /\ _bounds = None
    /\ _grid_vertex_list = None
    /\ _vertex_data = None
    /\ vertex_array = <<>>
    /\ normal_array = <<>>
    /\ completed = <<>>
    /\ slot_writes = <<>>
    /\ geometry_runs = 0
    /\ view_index = 0
    /\ view_result = ""
    /\ upload_success_count = 0
    /\ returned = ""
    /\ desired_view = ""
    /\ camera_pos = None
    /\ live = {}
    /\ filename = ""
    /\ first_parse = None
    /\ ConnectedAtStart

\* main.py lines 474 and 416: the message was nacked with requeue=True, so
\* the broker delivers it again and pika calls process_message with the
\* same body; the file server has the same file.  The locals of the
\* earlier call and its Renderer are gone.
Redeliver ==
    /\ pc = "finished"
    /\ acks = << <<"basic_nack", TRUE>> >>
    /\ ~Unusable(connection, channel)
    /\ pc' = "delivered"
    /\ job_id' = None
    /\ acks' = <<>>
    /\ temp_file' = "none"
    /\ nozzle_x' = 0
    /\ nozzle_y' = 0
    /\ nozzle_z' = 0
    /\ absolute_movement' = TRUE
    /\ segments' = <<>>
    /\ command' = NoCommand
    /\ old' = <<0, 0, 0>>
    /\ line' = ""
    /\ lineNo' = 0
    /\ printer_info' = None
    /\ _bounds' = None
    /\ _grid_vertex_list' = None
    /\ _vertex_data' = None
    /\ vertex_array' = <<>>
    /\ normal_array' = <<>>
    /\ completed' = <<>>
    /\ slot_writes' = <<>>
    /\ geometry_runs' = 0
    /\ view_index' = 0
    /\ view_result' = ""
    /\ upload_success_count' = 0
    /\ returned' = ""
    /\ desired_view' = ""
    /\ camera_pos' = None
    /\ live' = {}
    /\ filename' = ""
    /\ UNCHANGED <<body, connection, channel, processing_message, should_stop>>
    /\ UNCHANGED textVars
    /\ UNCHANGED consumerVars

\* process_message on a job whose download, GPU and uploads work or fail
\* as they may, with the connection open and no signal.
NextRedelivery ==
    \/ Receive
    \/ Download("downloaded")
    \/ ReadFile
    \/ \E l \in MessageFile : NextLine(l) /\ Step(l)
    \/ NoLineLeft /\ EndOfFile
    \/ \E info \in PrinterInfos : StartGeometry(info, <<0, 0, 0>>)
    \/ \E i \in 1..MaxLines : WorkerCompletes(i, <<0, 0, 0>>)
    \/ FinishGeometry
    \/ ViewRaises(<<0, 0, 0>>, 0)
    \/ ViewUploaded(<<0, 0, 0>>)
    \/ ViewUploadFails(<<0, 0, 0>>)
    \/ ReturnViews
    \/ RendererFails
    \/ Acknowledge
    \/ Redeliver

\* No step is left: process_message has returned and the message is not
\* back in the queue.
Quiescent ==
    pc = "finished" /\ acks # << <<"basic_nack", TRUE>> >>

\* The broker delivers a requeued message again, and process_message goes
\* on while it has a step to take: weak fairness of NextRedelivery, with
\* Quiescent for the states that enable none of its steps.
SpecRedelivery ==
    /\ InitRedelivery
    /\ [][NextRedelivery]_vars
    /\ WF_vars(Redeliver)
    /\ []<>Quiescent \/ []<><<NextRedelivery>>_vars

----------------------------------------------------------------------------
(* Properties                                                              *)

Position == <<nozzle_x, nozzle_y, nozzle_z>>

\* The step takes a line and builds a command of one of the given types.
Handles(types) == lineNo' = lineNo + 1 /\ command'.type \in types

\* The value a present field carries, 0 for an absent one.
ValueOr0(field) == IF field = <<>> THEN 0 ELSE field[1]

\* The last n elements of a sequence.
LastSegments(seq, n) == SubSeq(seq, Len(seq) - n + 1, Len(seq))

\* C1: a G0/G1 command that leaves no coordinate negative appends exactly
\* one Segment, from the position before the command to the position after
\* it, if and only if E is present, E > 0 and one of X, Y, Z is present;
\* otherwise it appends none.  `G1 X10 Y10 E1` as the first line appends
\* exactly the Segment ((0,0,0),(10,10,0)).
C1_SegmentIffExtrusion ==
    /\ [][(/\ Handles({"G0", "G1"})
           /\ nozzle_x' >= 0 /\ nozzle_y' >= 0 /\ nozzle_z' >= 0)
          => IF /\ command'.E # <<>>
                /\ command'.E[1] > 0
                /\ (command'.X # <<>> \/ command'.Y # <<>> \/ command'.Z # <<>>)
             THEN segments' = Append(segments, <<Position, Position'>>)
             ELSE segments' = segments]_vars
    /\ []((lineNo = 1 /\ line = "G1 X10 Y10 E1")
          => segments = << <<<<0, 0, 0>>, <<10000, 10000, 0>>>> >>)

\* C1 witness: an extruding G1 with X present has appended the Segment from
\* the old position to the new one, from a position other than the origin.
W1_SegmentAppended ==
    /\ command.type = "G1"
    /\ command.E # <<>> /\ command.E[1] > 0
    /\ command.X # <<>>
    /\ old # <<0, 0, 0>>
    /\ ~(nozzle_x < 0 \/ nozzle_y < 0 \/ nozzle_z < 0)
    /\ Len(segments) > 0
    /\ segments[Len(segments)] = <<old, Position>>

\* C2 (as claimed): in absolute mode a G0/G1 command sets each coordinate
\* whose field is present to the commanded value, zero included, and leaves
\* the others unchanged.
C2_AbsoluteSetsPresentAxes ==
    [][(Handles({"G0", "G1"}) /\ absolute_movement)
       => /\ nozzle_x' = (IF command'.X # <<>> THEN command'.X[1] ELSE nozzle_x)
          /\ nozzle_y' = (IF command'.Y # <<>> THEN command'.Y[1] ELSE nozzle_y)
          /\ nozzle_z' = (IF command'.Z # <<>> THEN command'.Z[1] ELSE nozzle_z)]_vars

\* C3: in relative mode a G0/G1 command adds each present field to its
\* coordinate and leaves the others unchanged; `G1 X5 E1` in relative mode
\* from (10,10,0) moves to (15,10,0) and appends ((10,10,0),(15,10,0)).
C3_RelativeAdds ==
    /\ [][(Handles({"G0", "G1"}) /\ ~absolute_movement)
          => /\ nozzle_x' = nozzle_x + ValueOr0(command'.X)
             /\ nozzle_y' = nozzle_y + ValueOr0(command'.Y)
             /\ nozzle_z' = nozzle_z + ValueOr0(command'.Z)]_vars
    /\ [][(/\ Handles({"G1"})
           /\ line' = "G1 X5 E1"
           /\ ~absolute_movement
           /\ Position = <<10000, 10000, 0>>)
          => /\ Position' = <<15000, 10000, 0>>
             /\ segments' = Append(segments, <<<<10000, 10000, 0>>, <<15000, 10000, 0>>>>)]_vars

\* C3 witness: `G1 X5 E1` was handled in relative mode from (10,10,0).
W3_RelativeMove ==
    /\ ~absolute_movement
    /\ line = "G1 X5 E1"
    /\ old = <<10000, 10000, 0>>
    /\ Position = <<15000, 10000, 0>>
    /\ Len(segments) > 0
    /\ segments[Len(segments)] = <<old, Position>>

\* The coordinate after a linear move agrees with the command: held when
\* the field is absent, replaced (absolute) or increased (relative) by a
\* present non-zero value.
AxisAdvanced(before, after, field) ==
    /\ field = <<>> => after = before
    /\ (field # <<>> /\ field[1] # 0)
       => after = (IF absolute_movement THEN field[1] ELSE before + field[1])

\* C4: a G0/G1 move whose updated position has a negative coordinate
\* appends no Segment whatever its E; the nozzle still advances to that
\* position, and a move made from a negative position is computed from it.
C4_NegativeMoveAdvances ==
    /\ [][(/\ Handles({"G0", "G1"})
           /\ (nozzle_x' < 0 \/ nozzle_y' < 0 \/ nozzle_z' < 0))
          => segments' = segments]_vars
    /\ [][(/\ Handles({"G0", "G1"})
           /\ \/ nozzle_x' < 0 \/ nozzle_y' < 0 \/ nozzle_z' < 0
              \/ nozzle_x < 0 \/ nozzle_y < 0 \/ nozzle_z < 0)
          => /\ AxisAdvanced(nozzle_x, nozzle_x', command'.X)
             /\ AxisAdvanced(nozzle_y, nozzle_y', command'.Y)
             /\ AxisAdvanced(nozzle_z, nozzle_z', command'.Z)
             /\ old' = Position]_vars

\* C4 witness: a linear move that started from a negative position reached
\* a position without one and appended the Segment that starts there.
W4_MovedFromNegative ==
    /\ command.type \in {"G0", "G1"}
    /\ old[1] < 0
    /\ nozzle_x >= 0
    /\ nozzle_x # old[1]
    /\ Len(segments) > 0
    /\ segments[Len(segments)] = <<old, Position>>

\* C5: G90 sets absolute_movement to true and G91 sets it to false, neither
\* changes the nozzle position or the Segment list, no other step changes
\* the mode, and the mode is true when the parse starts.
C5_ModeCommands ==
    /\ [][/\ Handles({"G90"})
             => (absolute_movement' = TRUE /\ Position' = Position /\ segments' = segments)
          /\ Handles({"G91"})
             => (absolute_movement' = FALSE /\ Position' = Position /\ segments' = segments)
          /\ ~Handles({"G90", "G91"})
             => absolute_movement' = absolute_movement]_vars
    /\ [](lineNo = 0 => absolute_movement = TRUE)

\* C5 witness: G91 was handled after an extruding move and left the
\* position and the Segment list as they were.
W5_RelativeSet ==
    /\ command.type = "G91"
    /\ absolute_movement = FALSE
    /\ Position = <<10000, 10000, 0>>
    /\ Len(segments) = 1

\* C6: a G92 line, and a line whose first token is none of G0, G1, G2, G3,
\* G90, G91, leaves the nozzle position, the mode and the Segment list
\* unchanged, whatever parameters it carries.
C6_OtherLinesChangeNothing ==
    [][(/\ lineNo' = lineNo + 1
        /\ command' # NoCommand
        /\ command'.type \notin {"G0", "G1", "G2", "G3", "G90", "G91"})
       => /\ Position' = Position
          /\ absolute_movement' = absolute_movement
          /\ segments' = segments]_vars

\* C6 witness: a G92 that carries an X other than the nozzle's was handled
\* away from the origin.
W6_SetPositionIgnored ==
    /\ command.type = "G92"
    /\ command.X # <<>>
    /\ command.X[1] # nozzle_x
    /\ Len(segments) > 0

\* C7 (as claimed): a G2/G3 command whose end position has a negative
\* coordinate emits no Segment, even with E > 0.
C7_ArcNegativeEndExcluded ==
    [][(/\ Handles({"G2", "G3"})
        /\ (nozzle_x' < 0 \/ nozzle_y' < 0 \/ nozzle_z' < 0))
       => segments' = segments]_vars

\* C8 (as claimed): the end position of a G2/G3 command is the position a
\* G0/G1 command with the same X, Y, Z fields produces from the same state.
C8_ArcEndIsLinearEnd ==
    [][Handles({"G2", "G3"}) => Position' = update_position(command').nozzle]_vars

\* The direction of the arc command: G2 is clockwise.
IsClockwise(cmd) == cmd.type = "G2"

\* C9: a G2/G3 arc of radius >= 0.001 from a position without a negative
\* coordinate emits max(4, floor(|span| * radius)) Segments when E > 0; an
\* arc with E absent or E <= 0 emits none; `G2 X10 Y0 I5 J0 E1` as the
\* first line emits 15 Segments.
C9_ArcSegmentCount ==
    /\ [][Handles({"G2", "G3"})
          => LET arc == ArcLocals(command', IsClockwise(command'))
                 E   == command'.E
             IN  /\ (E = <<>> \/ E[1] <= 0) => segments' = segments
                 /\ (/\ E # <<>> /\ E[1] > 0
                     /\ arc.radius >= 1
                     /\ nozzle_x >= 0 /\ nozzle_y >= 0 /\ nozzle_z >= 0)
                    => Len(segments') - Len(segments)
                         = Max(4, (Abs(arc.angle_diff) * arc.radius) \div 10000000)]_vars
    /\ []((lineNo = 1 /\ line = "G2 X10 Y0 I5 J0 E1") => Len(segments) = 15)

\* C9 witness: an arc longer than 4 units was subdivided after other
\* Segments had been drawn.
W9_ArcSubdivided ==
    /\ command.type \in {"G2", "G3"}
    /\ command.E # <<>> /\ command.E[1] > 0
    /\ lineNo = 2
    /\ old # <<0, 0, 0>>
    /\ Len(segments) > 16

\* C10: the Segments of one arc form a chain from the position before the
\* command to the computed end position, each starting where the previous
\* one ends, and the k-th intermediate point has
\* Z = startZ + k * (endZ - startZ) / n, to the 0.001 of the fixed point.
C10_ArcChain ==
    [][Handles({"G2", "G3"})
       => LET n    == Len(segments') - Len(segments)
              new  == LastSegments(segments', n)
              endX == IF absolute_movement
                      THEN (IF command'.X # <<>> THEN command'.X[1] ELSE nozzle_x)
                      ELSE nozzle_x + ValueOr0(command'.X)
              endY == IF absolute_movement
                      THEN (IF command'.Y # <<>> THEN command'.Y[1] ELSE nozzle_y)
                      ELSE nozzle_y + ValueOr0(command'.Y)
              endZ == IF absolute_movement
                      THEN (IF command'.Z # <<>> THEN command'.Z[1] ELSE nozzle_z)
                      ELSE nozzle_z + ValueOr0(command'.Z)
          IN  n > 0
              => /\ new[1][1] = Position
                 /\ \A k \in 1..(n - 1) : new[k + 1][1] = new[k][2]
                 /\ new[n][2] = <<endX, endY, endZ>>
                 /\ \A k \in 1..(n - 1) :
                       Abs(n * (new[k][2][3] - nozzle_z) - k * (endZ - nozzle_z)) <= 2 * n]_vars

\* C10 witness: an arc that climbs in Z was subdivided and its last
\* Segment ends at the nozzle.
W10_ArcChainDrawn ==
    /\ command.type \in {"G2", "G3"}
    /\ old[3] # nozzle_z
    /\ Len(segments) >= 4
    /\ segments[Len(segments)][2] = Position
    /\ segments[Len(segments)][1] = segments[Len(segments) - 1][2]
    /\ segments[Len(segments)][1][3] # nozzle_z
    /\ segments[Len(segments)][1][3] # old[3]

\* The arc of the step reaches line 98: it starts at no negative coordinate
\* and its radius is at least 0.001.
SpanUsed(arc) == ~Negative(arc.old_pos) /\ arc.radius >= 1

\* C11: the angular span used for a G2 arc lies in [-2*pi, 0] and the span
\* used for a G3 arc lies in [0, 2*pi]; it is the raw difference of the end
\* and start angles when that has the sign of the direction (or is zero),
\* and the raw difference minus (G2) or plus (G3) exactly one full turn when
\* it has the wrong sign.
C11_SpanSign ==
    [][Handles({"G2", "G3"})
       => LET arc == ArcLocals(command', IsClockwise(command'))
              raw == arc.end_angle - arc.start_angle
          IN  SpanUsed(arc)
              => IF IsClockwise(command')
                 THEN /\ -TwoPi <= arc.angle_diff /\ arc.angle_diff <= 0
                      /\ arc.angle_diff = (IF raw > 0 THEN raw - TwoPi ELSE raw)
                 ELSE /\ 0 <= arc.angle_diff /\ arc.angle_diff <= TwoPi
                      /\ arc.angle_diff = (IF raw < 0 THEN raw + TwoPi ELSE raw)]_vars

\* C11 witness: `G2 X5 Y5 Z5 J5 E1` from the origin, whose raw difference
\* pi/2 has the wrong sign for a clockwise arc, was drawn with the span
\* -3*pi/2: 23 Segments on the circle of radius 5.
W11_SpanCorrected ==
    /\ line = "G2 X5 Y5 Z5 J5 E1"
    /\ old = <<0, 0, 0>>
    /\ lineNo = 1
    /\ Len(segments) = 23

\* The end position the command of the step computes: each present field
\* replaces (absolute) or increases (relative) its coordinate.
ClaimedEndAxis(before, field) ==
    IF absolute_movement
    THEN (IF field # <<>> THEN field[1] ELSE before)
    ELSE before + ValueOr0(field)

ClaimedEnd ==
    <<ClaimedEndAxis(nozzle_x, command'.X),
      ClaimedEndAxis(nozzle_y, command'.Y),
      ClaimedEndAxis(nozzle_z, command'.Z)>>

\* The arc command of the step has a centre less than 0.001 from the start.
DegenerateArc ==
    /\ Handles({"G2", "G3"})
    /\ ValueOr0(command'.I) * ValueOr0(command'.I)
         + ValueOr0(command'.J) * ValueOr0(command'.J) < 1

PositiveE == command'.E # <<>> /\ command'.E[1] > 0

HasInlineComment(l) ==
    /\ IndexFrom(l, ";", 1) <= Len(l)
    /\ Split(BeforeComment(l)) # <<>>

\* C14 (as claimed): the Command of a line with an inline ';' is the
\* Command of the text before the first ';': a token holding ';' is read up
\* to the marker and no token after the marker sets a field.
C14_InlineCommentCuts ==
    [][(lineNo' = lineNo + 1 /\ HasInlineComment(line'))
       => command' = GcodeCommand(BeforeComment(line'))]_vars

\* The parameter token names a field and carries a number float() rejects.
Unparsable(param) ==
    LET p == BeforeComment(param)
    IN  /\ Char(p, 1) \in FieldLetters
        /\ Len(p) > 1
        /\ ParseFloat(Slice(p, 2, Len(p))) = <<>>

\* The parameter tokens of a line without an inline comment.
Params(l) == Tail(Split(l))

\* The line of the step has an unparsable parameter and no inline comment.
HasUnparsable(l) ==
    /\ IndexFrom(l, ";", 1) > Len(l)
    /\ Split(l) # <<>>
    /\ \E i \in 1..Len(Params(l)) : Unparsable(Params(l)[i])

\* The Command of the line l without its unparsable parameters.
WithoutUnparsable(l) ==
    ParseParams(EmptyCommand(Split(l)[1]),
                <<Split(l)[1]>> \o SelectSeq(Params(l), LAMBDA t : ~Unparsable(t)),
                2)

Endpoints(segs) == {segs[k][e] : k \in 1..Len(segs), e \in {1, 2}}

\* The record b is the componentwise minimum and maximum of the points.
IsBoxOf(b, points) ==
    /\ b.min_x <= b.max_x /\ b.min_y <= b.max_y /\ b.min_z <= b.max_z
    /\ \A p \in points :
          /\ b.min_x <= p[1] /\ p[1] <= b.max_x
          /\ b.min_y <= p[2] /\ p[2] <= b.max_y
          /\ b.min_z <= p[3] /\ p[3] <= b.max_z
    /\ \E p \in points : p[1] = b.min_x
    /\ \E p \in points : p[1] = b.max_x
    /\ \E p \in points : p[2] = b.min_y
    /\ \E p \in points : p[2] = b.max_y
    /\ \E p \in points : p[3] = b.min_z
    /\ \E p \in points : p[3] = b.max_z

\* The Renderer has stored what get_bounds returned.
BoundsTaken == pc \in {"pool", "views", "returned"} /\ printer_info # <<>>

\* C13: get_bounds returns None if and only if the Segment list is empty;
\* otherwise it returns, per axis, the minimum and the maximum over the
\* start and end points of all Segments, negative values included as they
\* are; over the Segments (0,0,0)-(1,1,1) and (2,2,2)-(3,-1,0) it returns
\* minX=0, maxX=3, minY=-1, maxY=2, minZ=0, maxZ=2.
C13_Bounds ==
    /\ BoundsTaken
       => /\ _bounds = <<>> <=> segments = <<>>
          /\ segments # <<>> => IsBoxOf(_bounds[1], Endpoints(segments))
    /\ get_bounds(<< <<<<0, 0, 0>>, <<1000, 1000, 1000>>>>,
                     <<<<2000, 2000, 2000>>, <<3000, -1000, 0>>>> >>)
         = <<[min_x |-> 0, max_x |-> 3000, min_y |-> -1000, max_y |-> 2000,
              min_z |-> 0, max_z |-> 2000]>>

\* C13 witness: the bounds of three Segments were taken, one of which ends
\* at a negative x and one of which climbs in z.
W13_BoundsTaken ==
    /\ BoundsTaken
    /\ Len(segments) = 3
    /\ _bounds # <<>>
    /\ _bounds[1].min_x < 0
    /\ _bounds[1].max_x > 0
    /\ _bounds[1].max_z > 0

\* C16 (as claimed): for a toolpath of zero Segments rendering is skipped:
\* render_view is not called and no exception is raised in the Renderer.
C16_EmptyToolpathSkipped ==
    (segments = <<>> /\ pc \in {"views", "returned"})
    => view_index = 0 /\ view_result # "raised"

\* C17 (as claimed): when the file cannot be read no Segment is produced
\* and the failure reaches render_gcode, the caller, as an exception it
\* handles: render_gcode returns False.
C17_ReadFailureHandled ==
    [][pc = "exited" => (segments' = <<>> /\ returned' = "False")]_vars

\* The three rows of each of the twelve triangles of a list of 36 normals
\* are equal.
FlatShaded(normals) ==
    \A t \in 0..11 :
        /\ normals[3 * t + 1] = normals[3 * t + 2]
        /\ normals[3 * t + 2] = normals[3 * t + 3]

\* C18: mesh building yields exactly 36 (vertex, normal) entries for every
\* Segment, zero-length and vertical ones included, the three entries of
\* each of the 12 triangles sharing one normal, and the mesh buffer holds
\* exactly 36 * segmentCount entries (6 numbers each).
C18_MeshSize ==
    /\ \A j \in 1..Len(completed) :
          /\ Len(completed[j].value[2]) = 36
          /\ Len(completed[j].value[3]) = 36
          /\ FlatShaded(completed[j].value[3])
    /\ pc \in {"pool", "views"}
       => /\ Len(vertex_array) = 36 * Len(segments)
          /\ Len(normal_array) = 36 * Len(segments)
    /\ _vertex_data # <<>> => Len(_vertex_data[1]) = 6 * 36 * Len(segments)

ZeroLength(seg) == seg[1] = seg[2]

Vertical(seg) == seg[1][1] = seg[2][1] /\ seg[1][2] = seg[2][2] /\ seg[1][3] # seg[2][3]

\* C18 witness: the mesh of a sloping, a zero-length and a vertical Segment
\* was built.
W18_MeshBuilt ==
    /\ pc = "views"
    /\ Len(segments) = 3
    /\ ZeroLength(segments[2])
    /\ Vertical(segments[3])
    /\ Len(completed) = 3
    /\ Len(_vertex_data[1]) = 648

\* C19: whatever the order the tasks completed in, the result of Segment i
\* is written to the rows [36*i, 36*(i+1)) of the arrays: every row is
\* written exactly once and the arrays are the results of the Segments one
\* after the other in the order of the Segments.  The arrays are looked at
\* when _prepare_geometry has returned.
C19_ScatterByIndex ==
    (pc = "views" /\ view_index = 0)
    => LET n == Len(segments)
       IN  /\ Len(slot_writes) = 36 * n
           /\ \A k \in 1..Len(slot_writes) : slot_writes[k] = 1
           /\ Len(vertex_array) = 36 * n
           /\ Len(normal_array) = 36 * n
           /\ \A i \in 1..n :
                 LET result == get_segment_vertices(segments[i], 300, 300, <<0, 0, 0>>)
                 IN  /\ SubSeq(vertex_array, 36 * (i - 1) + 1, 36 * i)
                          = result.segment_vertices
                     /\ SubSeq(normal_array, 36 * (i - 1) + 1, 36 * i)
                          = result.segment_normals

\* C19 witness: the task of the third Segment completed first and that of
\* the first Segment last, and the arrays were filled.
W19_OutOfOrder ==
    /\ pc = "views"
    /\ Len(completed) = 3
    /\ completed[1].task = 3
    /\ completed[3].task = 1
    /\ segments[1] # segments[3]
    /\ vertex_array[1] # vertex_array[73]

\* C20: the mesh buffer, the bounds and the grid of a Renderer are computed
\* exactly once, and every call of render_view leaves them as they are.
C20_GeometryOnce ==
    /\ [](geometry_runs <= 1)
    /\ []((pc \in {"views", "returned"} /\ printer_info # <<>>) => geometry_runs = 1)
    /\ [][view_index' # view_index
          => /\ _vertex_data' = _vertex_data
             /\ _bounds' = _bounds
             /\ _grid_vertex_list' = _grid_vertex_list
             /\ geometry_runs' = geometry_runs]_vars

\* C20 witness: all views of a toolpath were attempted, some rendered and
\* some not, on the geometry computed once.
W20_AllViewsOnOneGeometry ==
    /\ pc = "views"
    /\ view_index = 8
    /\ upload_success_count = 3
    /\ view_result = "raised"
    /\ geometry_runs = 1
    /\ Len(segments) = 2

\* C27: after every G2/G3 command the nozzle position is the end position
\* the command computes (each present field replaces its coordinate in
\* absolute mode and is added to it in relative mode), whether the arc was
\* skipped for a negative position, had a radius below 0.001, had no
\* extrusion or was subdivided.
C27_ArcAdvancesToEnd ==
    [][Handles({"G2", "G3"}) => (pc' = pc /\ Position' = ClaimedEnd)]_vars

\* C27 witness: an arc taken at a negative position appended no Segment
\* and moved the nozzle to its end.
W27_SkippedArcAdvanced ==
    /\ command.type \in {"G2", "G3"}
    /\ old[1] < 0
    /\ Position # old
    /\ Position[1] > 0
    /\ segments = <<>>

FirstToken(l) == IF Split(l) = <<>> THEN "" ELSE Split(l)[1]

\* The line is empty, of blanks only, a comment, or of a type that
\* parse_gcode has no case for.
IsIgnorable(l) ==
    \/ FirstToken(l) = ""
    \/ Char(FirstToken(l), 1) = ";"
    \/ FirstToken(l) \notin {"G0", "G1", "G2", "G3", "G90", "G91", "G92"}

\* C29 (as claimed): every line taken leaves parse_gcode in its loop, and a
\* line that is empty, of blanks only, a comment or of an unknown type
\* changes neither the position, the mode nor the Segment list.
C29_ParseReachesEnd ==
    [][lineNo' = lineNo + 1
       => /\ pc' = "parsing"
          /\ IsIgnorable(line')
             => /\ Position' = Position
                /\ absolute_movement' = absolute_movement
                /\ segments' = segments]_vars

\* C25 (as claimed): render_gcode ends by returning True when at least one
\* of the 8 views was rendered and uploaded, and by returning False when
\* none was or when the Renderer could not be created.
C25_SuccessIffOneView ==
    pc \in {"returned", "left"}
    => /\ returned \in {"True", "False"}
       /\ returned = "True" <=> upload_success_count > 0

\* A float that is a number, and the distance in the horizontal plane of
\* a camera position p from the centre of the bounds.
IsReal(f) == ~f.nan

FromCentre(locals, p) ==
    ModelDiagonal(Abs(p.x.v - locals.center_x), Abs(p.y.v - locals.center_y), 0)

\* What the rounding of sqrt2_inv and of the square roots may move a
\* distance by.
Rounding(distance) == distance \div 1000 + 2

\* cameraDistance^2 - (cameraHeight - centerZ)^2 is zero or negative.
NonPositiveRadicand(locals) ==
    locals.camera_distance <= Abs(locals.camera_height - locals.center_z)

\* C23: for any bounds, a camera position has the Z
\* maxZ + max(0.5 * diagonal, depth, 2.0) and lies at the horizontal distance
\* from the centre of the bounds at which the NORTH position lies.
C23_SameHeightAndDistance ==
    camera_pos # None =>
        /\ IsReal(camera_pos[1].z)
        /\ camera_pos[1].z.v =
              _bounds[1].max_z
                + Max(CameraLocals(_bounds[1]).model_diagonal \div 2,
                      Max(_bounds[1].max_z - _bounds[1].min_z, 2000))
        /\ IsReal(camera_pos[1].x)
        /\ IsReal(camera_pos[1].y)
        /\ IsReal(get_camera_position(_bounds[1], "NORTH").y)
        /\ Abs(FromCentre(CameraLocals(_bounds[1]), camera_pos[1])
                 - FromCentre(CameraLocals(_bounds[1]),
                              get_camera_position(_bounds[1], "NORTH")))
              <= Rounding(CameraLocals(_bounds[1]).camera_distance)

\* C24: the camera position is always a defined real value, and when the
\* radicand is zero or negative the horizontal distance used is
\* cameraDistance.
C24_FallbackWhenNonPositive ==
    camera_pos # None =>
        /\ IsReal(camera_pos[1].x)
        /\ IsReal(camera_pos[1].y)
        /\ IsReal(camera_pos[1].z)
        /\ NonPositiveRadicand(CameraLocals(_bounds[1])) =>
              camera_pos[1] =
                  CameraAt([CameraLocals(_bounds[1]) EXCEPT
                                !.horizontal_distance =
                                    Real(CameraLocals(_bounds[1]).camera_distance)],
                           Direction(desired_view))

\* C22: when a call of render_view has returned or raised, every GPU object
\* it created has been released.
C22_AllReleased == view_result \in {"img", "raised"} => live = {}

\* The step ends a download that failed, and the step ends process_message
\* after a render_gcode that did not return True.
FailedDownload ==
    pc = "downloading" /\ pc' = "finished" /\ temp_file' # "deleted"

FailedRender ==
    pc \in {"returned", "left"} /\ pc' \in {"finished", "exit_raised"}
        /\ returned # "True"

\* C30: on every path through process_message at most one basic_ack or
\* basic_nack is issued, basic_ack only after render_gcode returned True,
\* and a failed download or a failed render results in basic_nack with
\* requeue=True.
C30_OneAcknowledgement ==
    [][/\ Len(acks') <= 1
       /\ (acks' # acks /\ acks'[Len(acks')] = <<"basic_ack">>) => returned = "True"
       /\ (FailedDownload \/ FailedRender) => acks' = << <<"basic_nack", TRUE>> >>]_vars

\* The order of the views and the end of the name of the image of each.
ViewOrder ==
    <<"NORTH_WEST", "WEST", "SOUTH_WEST", "SOUTH", "SOUTH_EAST", "EAST",
      "NORTH_EAST", "NORTH">>

ViewSuffix ==
    <<"_view_0_north_west.png", "_view_1_west.png", "_view_2_south_west.png",
      "_view_3_south.png", "_view_4_south_east.png", "_view_5_east.png",
      "_view_6_north_east.png", "_view_7_north.png">>

\* C21: the k-th pass of the loop renders the k-th view of the fixed order,
\* and the image it uploads is named with the 0-based position of that view.
C21_FixedViewOrder ==
    [][view_index' = view_index + 1 =>
          /\ desired_view' = ViewOrder[view_index']
          /\ view_result' = "img" =>
                filename' = "job_" \o FormatJobId(job_id) \o ViewSuffix[view_index']]_vars

\* All 8 views of job 42 were rendered and the last one was uploaded.
W21_LastViewNamed ==
    /\ view_index = 8
    /\ desired_view = "NORTH"
    /\ filename = "job_42_view_7_north.png"

C31_MalformedRejected ==
    [][(pc = "delivered" /\ pc' # "delivered" /\ Received(body) # "job"
           /\ channel = "open") =>
          /\ acks' = << <<"basic_nack", FALSE>> >>
          /\ pc' = "finished"
          /\ temp_file' = "none"]_vars

\* C33: when process_message finds the connection or the channel closed
\* at one of its three tests (before processing, before rendering, after
\* rendering), it ends without basic_ack and without basic_nack, and at the
\* first two tests without having started a render.
C33_ClosedNoAcknowledgement ==
    [][(/\ pc \in {"delivered", "downloading", "returned"}
        /\ pc' # pc
        /\ connection # "open" \/ channel # "open"
        /\ pc = "delivered" => Received(body) = "job") =>
          /\ pc' = "finished"
          /\ acks' = <<>>
          /\ pc # "returned" =>
                /\ returned' = ""
                /\ geometry_runs' = 0
                /\ view_index' = 0
                /\ segments' = <<>>]_vars

\* render_gcode returned True, the connection was found closed after it,
\* and process_message ended with nothing acknowledged.
W33_ClosedAfterRender ==
    /\ pc = "finished"
    /\ returned = "True"
    /\ connection = "closed"
    /\ acks = <<>>

\* The step ends process_message, by a return or by a raised SystemExit.
ProcessMessageReturns ==
    pc \notin {"finished", "exit_raised"} /\ pc' \in {"finished", "exit_raised"}

\* C34: a shutdown signal that arrives while processing_message is true
\* sets should_stop and leaves the connection open; while a message is
\* being processed the program closes the connection only in the step that
\* ends process_message, after its basic_ack or basic_nack; and
\* processing_message is false once process_message has returned by any
\* path.
C34_SignalDuringProcessing ==
    [][/\ (processing_message /\ should_stop' /\ ~should_stop) =>
              (connection' = connection /\ channel' = channel)
       /\ (processing_message /\ connection = "open" /\ connection' = "closed") =>
              \/ ProcessMessageReturns /\ should_stop
              \/ UNCHANGED <<pc, should_stop, acks, processing_message>>
       /\ ProcessMessageReturns => ~processing_message']_vars

\* A signal arrived during the processing of a message that was then
\* acknowledged on the open channel, and the connection was closed after
\* that.
W34_ClosedAfterAcknowledgement ==
    /\ pc = "finished"
    /\ should_stop
    /\ ~processing_message
    /\ connection = "closed"
    /\ acks = << <<"basic_ack">> >>

C39_ContextReleasedOnce ==
    view_result \in {"img", "raised"} =>
        /\ "ctx" \notin live
        /\ ReleasedOnReturn \cap ReleasedInFinally(AllCreated) = {}
        /\ ReleasedInFinally(AllCreated) = {"ctx"}

\* A call of render_view raised after it had created its context and the
\* other objects: those are still live, the context is not.
W39_ReleasedAfterException ==
    /\ view_result = "raised"
    /\ "vertex_array" \in live
    /\ "ctx" \notin live

\* C37: in the loop of render_gcode each pass attempts the next of the 8
\* views, once; a view that raised or whose upload failed is followed by
\* the next view, the loop is left only after the 8th, and
\* upload_success_count grows by at most one a pass, so that it never
\* exceeds the number of views attempted.
C37_EveryViewAttemptedOnce ==
    [][pc = "views" =>
          /\ view_index' # view_index =>
                /\ view_index' = view_index + 1
                /\ desired_view' = views[view_index']
                /\ view_result' \in {"img", "raised"}
                /\ upload_success_count' \in
                      {upload_success_count, upload_success_count + 1}
          /\ pc' # "views" =>
                /\ pc' = "returned"
                /\ view_index = Len(views)
          /\ upload_success_count' <= view_index']_vars

\* render_gcode returned after 8 attempts of which the last raised and one
\* earlier one was uploaded.
W37_FailuresDidNotEndTheLoop ==
    /\ pc = "returned"
    /\ view_index = Len(views)
    /\ view_result = "raised"
    /\ upload_success_count = 1

\* The step is an attempt of connect_rabbitmq in which every call
\* succeeded: the connection and the channel are open, the queue is
\* declared and the prefetch count is 1.
AttemptSucceeds ==
    /\ pc = "attempting" /\ pc' # "attempting"
    /\ connection' = "open" /\ channel' = "open"
    /\ queue_declared' /\ prefetch_count' = 1

\* C36: a call of connect_rabbitmq makes at most 5 attempts and then has
\* returned; it returns True in the step of an attempt that succeeded and
\* in no other, it returns False in the step of the 5th failed attempt, and
\* it starts no attempt once should_stop is set.
C36_ConnectTerminates ==
    /\ pc = "connect" ~> pc = "connect_done"
    /\ [][/\ retry_count' <= max_retries
          /\ (pc' = "attempting" /\ pc # "attempting") =>
                 (retry_count < max_retries /\ ~should_stop)
          /\ (pc' = "connect_done" /\ pc # "connect_done") =>
                 (connect_returned' = "True" <=> AttemptSucceeds)
          /\ (pc = "attempting" /\ pc' # "attempting") =>
                 /\ AttemptSucceeds \/ retry_count' = retry_count + 1
                 /\ AttemptSucceeds => (pc' = "connect_done" /\ connect_returned' = "True")
                 /\ retry_count' = max_retries =>
                       (pc' = "connect_done" /\ connect_returned' = "False")
          /\ (pc = "connect_loop" /\ pc' # "connect_loop" /\ should_stop) =>
                 (pc' = "connect_done" /\ connect_returned' = "False")]_vars

\* connect_rabbitmq returned True at its 5th attempt, after 4 that failed.
W36_ConnectedAtLastAttempt ==
    /\ pc = "connect_done"
    /\ connect_returned = "True"
    /\ retry_count = max_retries - 1
    /\ connection = "open"
    /\ prefetch_count = 1

\* C35: once a signal has set should_stop, start_consumer ends (it returns,
\* or the process exits) with the connection not open.
C35_ShutdownEnds ==
    should_stop ~> (pc \in {"stopped", "sys_exit"} /\ connection # "open")

\* The delivery is settled: it was acked, or nacked with requeue=False.
Settled ==
    /\ pc = "finished"
    /\ acks \in {<< <<"basic_ack">> >>, << <<"basic_nack", FALSE>> >>}

\* C32: a job message whose G-code yielded zero Segments is eventually
\* settled, instead of being nacked with requeue=True on every delivery.
C32_EmptyJobSettled ==
    (pc = "done" /\ segments = <<>>) ~> Settled

====
